---------------------------- MODULE Spec2Model ----------------------------
(***************************************************************************)
(* Model of the tool-orchestration core of alice-agi.                      *)
(*                                                                         *)
(*   Spec       McpClientService's session store: getClient, the connect   *)
(*              attempt behind it, disconnect and disconnectAll            *)
(*              (src/src/services/mcp/mcp.client.ts).                      *)
(*   SpecConfig the same store, with getClient called for the              *)
(*              configurations that establishConnection rejects.           *)
(*   SpecTools  McpClientService.listTools and callTool, applied to the    *)
(*              answers a server can give.                                 *)
(*   SpecRegistry  ToolRegistrationService.initializeTools, called twice,   *)
(*              the calls overlapping or not (src/unnamed/part_002).       *)
(*   SpecPass   a single initializeTools call over a longer server list.   *)
(*   SpecCallable  the execute of the remote tools that a call registers.  *)
(*   SpecInstruction  formatMcpInstruction applied to input schemas.       *)
(*   SpecActions  actionService.updateActionWithResult applied to raw      *)
(*              results (src/unnamed/part_003).                            *)
(*   SpecStore  actionService's createAction, updateAction and             *)
(*              updateActionWithResult over the tables they write.         *)
(*                                                                         *)
(* The services run on one JavaScript event loop.  An action of Spec is    *)
(* the code that runs between two waits on I/O: the synchronous part of a  *)
(* call up to its first await on the transport, or the completion of that  *)
(* I/O together with the promise reactions chained to it, which run in     *)
(* registration order in the same microtask drain.                         *)
(***************************************************************************)
EXTENDS Naturals, Sequences, FiniteSets, TLC

VARIABLES
    clients,             \* Map<string, McpClient>, as <<[id, client]>> in insertion order
    connectingPromises,  \* Map<string, Promise<McpClient>>, as [id -> attempt or NoPromise]
    calls,               \* every getClient call so far, the k-th call at index k
    open,                \* clients that connected and on which close() was never called
    closing,             \* disconnect calls suspended in `await client.close()`
    sweep,               \* the disconnectAll call in progress
    nDisconnects,        \* number of disconnect calls made by callers
    nSweeps,             \* number of disconnectAll calls made
    window,              \* history: per id, the attempt that opened the current window
    disconnected,        \* history: per id, disconnect(id) has returned and no
                         \*          getClient(id) was made since
    ev,                  \* history: the step taken last
    tl,                  \* the last listTools / callTool exchange (SpecTools)
    mcpServerRegistry,   \* the configured servers, in the order of the list
    isInitialized,       \* ToolRegistrationService's completion flag
    activeToolsMap,      \* the callable map: tool key -> its ToolService
    sessionTools,        \* stateManager's session.tools, the published catalog
    inits,               \* every initializeTools call so far, the k-th at index k
    exec,                \* the last invocation of a remote tool's execute
    instr,               \* the last formatMcpInstruction call (SpecInstruction)
    act,                 \* the last updateActionWithResult call (SpecActions)
    db,                  \* the persisted tables: actions, documents, actionDocuments
    tx,                  \* the updateActionWithResult transaction in progress
    ret                  \* how the last actionService call ended

\* The variables of the tool registry.
regVars == <<mcpServerRegistry, isInitialized, activeToolsMap, sessionTools,
             inits, exec, instr>>

\* The variables of the action service.
actVars == <<act, db, tx, ret>>

vars == <<clients, connectingPromises, calls, open, closing, sweep,
          nDisconnects, nSweeps, window, disconnected, ev, tl, regVars, actVars>>

connVars == <<clients, connectingPromises, calls, open, closing, sweep,
              nDisconnects, nSweeps, window, disconnected, ev>>

-----------------------------------------------------------------------------
(* Bounds of the model.                                                    *)

MaxCalls == 3

MaxDisconnects == 1

MaxSweeps == 1

-----------------------------------------------------------------------------
(* McpServerConfig.  An optional field that is not given is absent from    *)
(* the record.  Seven configurations, one per path of establishConnection: *)
(* two that connect, and one for each way of failing before the connect.   *)

ServerConfigs ==
    { [id |-> "firecrawl", name |-> "Firecrawl", transport_type |-> "stdio",
       command |-> "npx", enabled |-> TRUE],
      [id |-> "todoist", name |-> "Todoist MCP", transport_type |-> "stdio",
       command |-> "npx", enabled |-> TRUE],
      [id |-> "nocmd", name |-> "No command", transport_type |-> "stdio",
       enabled |-> TRUE],
      [id |-> "emptycmd", name |-> "Empty command", transport_type |-> "stdio",
       command |-> "", enabled |-> TRUE],
      [id |-> "http_noaddr", name |-> "HTTP without address",
       transport_type |-> "http", enabled |-> TRUE],
      [id |-> "http_calculator_v1", name |-> "HTTP Calculator MCP",
       transport_type |-> "http", address |-> "http://localhost:30002/mcp",
       enabled |-> TRUE],
      [id |-> "ws", name |-> "Websocket", transport_type |-> "websocket",
       address |-> "ws://localhost:30003", enabled |-> TRUE] }

ServerIds == { c.id : c \in ServerConfigs }

ConfigOf(id) == CHOOSE c \in ServerConfigs : c.id = id

\* `!serverConfig.<field>`: the field is undefined or the empty string.
Falsy(cfg, field) == field \notin DOMAIN cfg \/ cfg[field] = ""

-----------------------------------------------------------------------------
(* A JavaScript Map with string keys, kept in insertion order.             *)

MapHas(m, key) == \E i \in 1..Len(m) : m[i].id = key

MapGet(m, key) == (CHOOSE i \in 1..Len(m) : m[i].id = key)

MapSet(m, key, value) ==
    IF MapHas(m, key)
    THEN [i \in 1..Len(m) |-> IF m[i].id = key THEN [id |-> key, client |-> value]
                                                ELSE m[i]]
    ELSE Append(m, [id |-> key, client |-> value])

MapDelete(m, key) == SelectSeq(m, LAMBDA e : e.id # key)

MapKeys(m) == [i \in 1..Len(m) |-> m[i].id]

ClientOf(m, key) == m[MapGet(m, key)].client

NoPromise == 0

-----------------------------------------------------------------------------
(* establishConnection, lines 38-68: the transport chosen for a            *)
(* configuration, or the error thrown before anything is connected.        *)

NoError == "none"
ConfigurationError == "Configuration"          \* lines 42 and 59
NotImplementedError == "NotImplemented"        \* line 64
UnsupportedTransportError == "UnsupportedTransport"   \* line 67
ConnectionError == "Connection"                \* client.connect rejects, line 76

SelectTransportFallsBack(cfg) ==
    IF cfg.transport_type = "stdio" /\ Falsy(cfg, "command")
    THEN [transport |-> "none", error |-> ConfigurationError]
    ELSE [transport |-> "stdio", error |-> NoError]

SelectTransportUnchecked(cfg) ==
    IF cfg.transport_type = "stdio"
    THEN [transport |-> "stdio", error |-> NoError]
    ELSE IF cfg.transport_type = "http"
    THEN IF Falsy(cfg, "address")
         THEN [transport |-> "none", error |-> ConfigurationError]
         ELSE [transport |-> "none", error |-> NotImplementedError]
    ELSE [transport |-> "none", error |-> UnsupportedTransportError]

SelectTransport(cfg) ==
    IF cfg.transport_type = "stdio"
    THEN IF Falsy(cfg, "command")
         THEN [transport |-> "none", error |-> ConfigurationError]
         ELSE [transport |-> "stdio", error |-> NoError]
    ELSE IF cfg.transport_type = "http"
    THEN IF Falsy(cfg, "address")
         THEN [transport |-> "none", error |-> ConfigurationError]
         ELSE [transport |-> "none", error |-> NotImplementedError]
    ELSE [transport |-> "none", error |-> UnsupportedTransportError]


-----------------------------------------------------------------------------
(* getClient, lines 95-114.  A call is recorded as                          *)
(*   id       the serverConfig.id it was made for                           *)
(*   how      "stored" (line 97), "pending" (line 101) or "connect" (104)   *)
(*   att      the client returned (stored), or the call whose connect       *)
(*            attempt this call waits for (its own index when it starts one)*)
(*   state    of the attempt the call started: "connecting" while           *)
(*            client.connect is awaited, "rejected" when establishConnection*)
(*            threw before connecting and getClient has not resumed yet,    *)
(*            "connected" / "failed" once getClient has resumed             *)
(*   error    what the attempt failed with                                  *)
(*   connect  whether a transport was built and client.connect called       *)
(*   win, first   history, see GetClient                                    *)
(* A client is named by the index of the call whose attempt created it.     *)

NoCall ==
    [id |-> "", how |-> "", att |-> 0, state |-> "none", error |-> NoError,
     connect |-> FALSE, win |-> 0, first |-> FALSE]

\* Lines 96-104: which of the three paths a call takes.
GetClientRouteNoSingleFlight(cl, cp, id) ==
    IF MapHas(cl, id) THEN "stored" ELSE "connect"

GetClientRoute(cl, cp, id) ==
    IF MapHas(cl, id) THEN "stored"
    ELSE IF cp[id] # NoPromise THEN "pending"
    ELSE "connect"

\* Line 105.
RegisterPending(cp, id, k) == [cp EXCEPT ![id] = k]

DeletePendingSkipped(cp, id) == cp

\* Lines 90 and 112, and line 186 of disconnect.
DeletePending(cp, id) == [cp EXCEPT ![id] = NoPromise]

\* Line 109.
StoreClient(cl, id, client) == MapSet(cl, id, client)

\* Line 184.
RemoveClient(cl, id) == MapDelete(cl, id)

Event(op, id, k, ok) == [op |-> op, id |-> id, k |-> k, ok |-> ok]

GetClient(cfg) ==
    /\ Len(calls) < MaxCalls
    /\ LET id == cfg.id
           k == Len(calls) + 1
           route == GetClientRoute(clients, connectingPromises, id)
           sel == SelectTransport(cfg)
           \* history: the call opens a window when it starts an attempt and
           \* none is open; it is the first call after a disconnect(id) that
           \* returned when no getClient(id) was made since.
           win == IF route = "connect" /\ window[id] = 0 THEN k ELSE window[id]
           base == [NoCall EXCEPT !.id = id, !.how = route, !.win = win,
                                  !.first = disconnected[id]]
       IN /\ window' = [window EXCEPT ![id] = win]
          /\ disconnected' = [disconnected EXCEPT ![id] = FALSE]
          /\ sweep' = [sweep EXCEPT !.quiet = FALSE]
          /\ ev' = Event("getClient", id, k, TRUE)
          /\ UNCHANGED <<clients, open, closing, nDisconnects, nSweeps, tl, regVars, actVars>>
          /\ CASE route = "stored" ->
                    /\ calls' = Append(calls, [base EXCEPT !.att = ClientOf(clients, id)])
                    /\ UNCHANGED connectingPromises
               [] route = "pending" ->
                    /\ calls' = Append(calls, [base EXCEPT !.att = connectingPromises[id]])
                    /\ UNCHANGED connectingPromises
               [] route = "connect" /\ sel.error = NoError ->
                    \* lines 48-76: transport and client built, connect awaited
                    /\ calls' = Append(calls, [base EXCEPT !.att = k,
                                   !.state = "connecting", !.connect = TRUE])
                    /\ connectingPromises' = RegisterPending(connectingPromises, id, k)
               [] route = "connect" /\ sel.error # NoError ->
                    \* lines 42/59/64/67 throw, the catch of line 87 deletes the
                    \* (absent) entry and rethrows; line 105 then registers the
                    \* rejected promise and line 108 waits for it
                    /\ calls' = Append(calls, [base EXCEPT !.att = k,
                                   !.state = "rejected", !.error = sel.error])
                    /\ connectingPromises' =
                           RegisterPending(DeletePending(connectingPromises, id), id, k)

\* client.connect resolves: establishConnection returns the client (line 86),
\* getClient stores it (line 109) and its finally deletes the entry (line 112).
ConnectSucceeds(a) ==
    /\ calls[a].state = "connecting"
    /\ LET id == calls[a].id
       IN /\ calls' = [calls EXCEPT ![a].state = "connected"]
          /\ clients' = StoreClient(clients, id, a)
          /\ connectingPromises' = DeletePending(connectingPromises, id)
          /\ open' = open \cup {a}
          /\ window' = [window EXCEPT ![id] = 0]
          /\ ev' = Event("connected", id, a, TRUE)
          /\ UNCHANGED <<closing, sweep, nDisconnects, nSweeps, disconnected, tl, regVars, actVars>>

\* client.connect rejects: the catch of establishConnection deletes the entry
\* and rethrows (lines 87-91), the finally of getClient deletes it again (112).
ConnectFails(a) ==
    /\ calls[a].state = "connecting"
    /\ LET id == calls[a].id
       IN /\ calls' = [calls EXCEPT ![a].state = "failed", ![a].error = ConnectionError]
          /\ connectingPromises' =
                 DeletePending(DeletePending(connectingPromises, id), id)
          /\ window' = [window EXCEPT ![id] = 0]
          /\ ev' = Event("failed", id, a, FALSE)
          /\ UNCHANGED <<clients, open, closing, sweep, nDisconnects, nSweeps,
                         disconnected, tl, regVars, actVars>>

\* getClient resumes from line 108 with the rejection of an attempt that
\* threw before connecting: only the finally of line 112 runs.
RejectionResumes(a) ==
    /\ calls[a].state = "rejected"
    /\ LET id == calls[a].id
       IN /\ calls' = [calls EXCEPT ![a].state = "failed"]
          /\ connectingPromises' = DeletePending(connectingPromises, id)
          /\ window' = [window EXCEPT ![id] = 0]
          /\ ev' = Event("failed", id, a, FALSE)
          /\ UNCHANGED <<clients, open, closing, sweep, nDisconnects, nSweeps,
                         disconnected, tl, regVars, actVars>>

\* What the k-th getClient call has returned so far.
Result(k) ==
    IF calls[k].how = "stored"
    THEN [st |-> "resolved", client |-> calls[k].att, error |-> NoError]
    ELSE LET a == calls[calls[k].att]
         IN CASE a.state = "connected" ->
                    [st |-> "resolved", client |-> calls[k].att, error |-> NoError]
              [] a.state = "failed" ->
                    [st |-> "rejected", client |-> 0, error |-> a.error]
              [] OTHER -> [st |-> "waiting", client |-> 0, error |-> NoError]

-----------------------------------------------------------------------------
(* disconnect, lines 173-187.                                               *)

\* Lines 174-179 with a client stored: close() is called and awaited.
\* Lines 174-175 and 186 without one: only the pending entry is deleted.
Disconnect(id) ==
    /\ nDisconnects < MaxDisconnects
    /\ nDisconnects' = nDisconnects + 1
    /\ window' = [window EXCEPT ![id] = 0]
    /\ UNCHANGED <<clients, calls, sweep, nSweeps, tl, regVars, actVars>>
    /\ IF MapHas(clients, id)
       THEN /\ closing' = closing \cup
                   {[d |-> nDisconnects + 1, id |-> id, client |-> ClientOf(clients, id)]}
            /\ open' = open \ {ClientOf(clients, id)}
            /\ ev' = Event("close", id, 0, TRUE)
            /\ UNCHANGED <<connectingPromises, disconnected>>
       ELSE /\ connectingPromises' = DeletePending(connectingPromises, id)
            /\ disconnected' = [disconnected EXCEPT ![id] = TRUE]
            /\ ev' = Event("disconnect", id, 0, TRUE)
            /\ UNCHANGED <<closing, open>>

\* close() resolves (closed) or rejects, which line 181 catches; either way
\* lines 184 and 186 run and disconnect returns.
DisconnectResumes(c, closed) ==
    /\ c \in closing
    /\ closing' = closing \ {c}
    /\ clients' = RemoveClient(clients, c.id)
    /\ connectingPromises' = DeletePending(connectingPromises, c.id)
    /\ disconnected' = [disconnected EXCEPT ![c.id] = TRUE]
    /\ window' = [window EXCEPT ![c.id] = 0]
    /\ ev' = Event("disconnect", c.id, 0, closed)
    /\ UNCHANGED <<calls, open, sweep, nDisconnects, nSweeps, tl, regVars, actVars>>

-----------------------------------------------------------------------------
(* disconnectAll, lines 189-194.  sweep.ids are the ids of line 190 not     *)
(* yet done; while the call is active it waits for the close() of the       *)
(* first of them.  sweep.quiet is history: no getClient call was made       *)
(* since the call started.                                                  *)

NoSweep == [active |-> FALSE, ids |-> <<>>, quiet |-> FALSE]

\* Line 190.
AllServerIds(cl) == MapKeys(cl)

\* The loop of lines 191-193 from `ids` on: disconnect(id) returns without
\* waiting for an id that has no client; the suffix left starts with the
\* first id whose close() has to be awaited.
RECURSIVE SweepRest(_, _)
SweepRest(ids, cl) ==
    IF ids = <<>> THEN <<>>
    ELSE IF MapHas(cl, Head(ids)) THEN ids
    ELSE SweepRest(Tail(ids), cl)

Skipped(ids, rest) == { ids[i] : i \in 1..(Len(ids) - Len(rest)) }

\* The state after the loop ran from `ids` on, having done the ids in `done`.
SweepContinue(ids, done, cl, cp, quiet, closed) ==
    LET rest == SweepRest(ids, cl)
        gone == done \cup Skipped(ids, rest)
    IN /\ connectingPromises' =
              [id \in ServerIds |-> IF id \in gone THEN DeletePending(cp, id)[id]
                                                   ELSE cp[id]]
       /\ disconnected' = [id \in ServerIds |-> (id \in gone) \/ disconnected[id]]
       /\ window' = [id \in ServerIds |->
                        IF id \in gone \/ (rest # <<>> /\ id = Head(rest))
                        THEN 0 ELSE window[id]]
       /\ IF rest = <<>>
          THEN /\ sweep' = [active |-> FALSE, ids |-> <<>>, quiet |-> quiet]
               /\ ev' = Event("disconnectAll", "", 0, closed)
               /\ UNCHANGED open
          ELSE /\ sweep' = [active |-> TRUE, ids |-> rest, quiet |-> quiet]
               /\ open' = open \ {ClientOf(cl, Head(rest))}
               /\ ev' = Event("close", Head(rest), 0, closed)

DisconnectAll ==
    /\ ~sweep.active
    /\ nSweeps < MaxSweeps
    /\ nSweeps' = nSweeps + 1
    /\ SweepContinue(AllServerIds(clients), {},
                     clients, connectingPromises, TRUE, TRUE)
    /\ UNCHANGED <<clients, calls, closing, nDisconnects, tl, regVars, actVars>>

\* The close() awaited by the disconnect of line 192 settles: lines 184 and
\* 186 run, disconnect returns and the loop goes on.
DisconnectAllResumes(closed) ==
    /\ sweep.active
    /\ clients' = RemoveClient(clients, Head(sweep.ids))
    /\ SweepContinue(Tail(sweep.ids), {Head(sweep.ids)}, clients',
                     connectingPromises, sweep.quiet, closed)
    /\ UNCHANGED <<calls, closing, nDisconnects, nSweeps, tl, regVars, actVars>>

-----------------------------------------------------------------------------
(* The session store.                                                       *)

NoExchange == [op |-> "none"]

InitConn ==
    /\ clients = <<>>
    /\ connectingPromises = [id \in ServerIds |-> NoPromise]
    /\ calls = <<>>
    /\ open = {}
    /\ closing = {}
    /\ sweep = NoSweep
    /\ nDisconnects = 0
    /\ nSweeps = 0
    /\ window = [id \in ServerIds |-> 0]
    /\ disconnected = [id \in ServerIds |-> FALSE]
    /\ ev = Event("init", "", 0, TRUE)

\* No remote tool was invoked yet; no action was updated yet.
NoExec == [op |-> "none"]
NoInstruction == [op |-> "none"]

NoUpdate == [op |-> "none"]

\* No transaction of updateActionWithResult is open.
NoTx == [pc |-> "none"]

\* No actionService call has ended yet.
NoReturn == [op |-> "none"]

\* The tables of a new database: no action, no document, no association.
EmptyDb == [actions |-> <<>>, documents |-> <<>>, actionDocuments |-> <<>>]

\* The action service before its first call.
InitAct ==
    /\ act = NoUpdate
    /\ db = EmptyDb
    /\ tx = NoTx
    /\ ret = NoReturn

\* The tool registry before the first initializeTools call, part_002 lines
\* 11 and 14, for a process configured with the list `registry`.
InitReg(registry) ==
    /\ mcpServerRegistry = registry
    /\ isInitialized = FALSE
    /\ activeToolsMap = <<>>
    /\ sessionTools = <<>>
    /\ inits = <<>>
    /\ exec = NoExec
    /\ instr = NoInstruction

\* The list of src/unnamed/part_000, lines 13-27.
DeployedRegistry == <<ConfigOf("firecrawl")>>

Init ==
    /\ InitConn
    /\ tl = NoExchange
    /\ InitReg(DeployedRegistry)
    /\ InitAct

\* The configurations getClient is called with under Spec: the servers
\* whose configuration passes lines 40-68, so that a connect is attempted.
StoreConfigs == { c \in ServerConfigs : c.id \in {"firecrawl", "todoist"} }

Next ==
    \/ \E cfg \in StoreConfigs : GetClient(cfg)
    \/ \E a \in 1..Len(calls) : ConnectSucceeds(a)
    \/ \E a \in 1..Len(calls) : ConnectFails(a)
    \/ \E cfg \in StoreConfigs : Disconnect(cfg.id)
    \/ \E c \in closing, closed \in BOOLEAN : DisconnectResumes(c, closed)
    \/ DisconnectAll
    \/ \E closed \in BOOLEAN : DisconnectAllResumes(closed)

Spec == Init /\ [][Next]_vars

\* SpecConfig: getClient called with the configurations that
\* establishConnection rejects before it connects, among disconnect calls.
\* (No client is ever stored here, so disconnectAll has nothing to visit.)
FailingConfigs == ServerConfigs \ StoreConfigs

NextConfig ==
    \/ \E cfg \in FailingConfigs : GetClient(cfg)
    \/ \E a \in 1..Len(calls) : RejectionResumes(a)
    \/ \E cfg \in FailingConfigs : Disconnect(cfg.id)

SpecConfig == Init /\ [][NextConfig]_vars

-----------------------------------------------------------------------------
(* Properties of the session store.                                         *)

TypeOK ==
    /\ \A i \in 1..Len(clients) : clients[i].id \in ServerIds
                                  /\ clients[i].client \in 1..Len(calls)
    /\ \A i, j \in 1..Len(clients) : clients[i].id = clients[j].id => i = j
    /\ connectingPromises \in [ServerIds -> 0..Len(calls)]
    /\ Len(calls) <= MaxCalls
    /\ \A k \in 1..Len(calls) :
          /\ calls[k].how \in {"stored", "pending", "connect"}
          /\ calls[k].att \in 1..k
          /\ calls[calls[k].att].how = "connect"
          /\ (calls[k].how = "connect") = (calls[k].state # "none")
    /\ open \subseteq 1..Len(calls)
    /\ nDisconnects \in 0..MaxDisconnects
    /\ nSweeps \in 0..MaxSweeps

CallsFor(id) == { k \in 1..Len(calls) : calls[k].id = id }

CallsInWindow(w) == { k \in 1..Len(calls) : calls[k].win = w }

C2_DisconnectThenFreshConnect ==
    /\ ev.op = "disconnect" =>
          /\ ~MapHas(clients, ev.id)
          /\ connectingPromises[ev.id] = NoPromise
    /\ \A k \in 1..Len(calls) : calls[k].first => calls[k].how = "connect"

\* C3 as claimed: when a connect attempt for id has failed, every call that
\* waited for it has the failure, no client is stored for id, no pending
\* attempt is registered for id, and a getClient(id) made now starts a
\* connect attempt.
C3_FailureNotCached ==
    ev.op = "failed" =>
       /\ \A k \in 1..Len(calls) :
             calls[k].how # "stored" /\ calls[k].att = ev.k =>
                Result(k) = [st |-> "rejected", client |-> 0,
                             error |-> calls[ev.k].error]
       /\ ~MapHas(clients, ev.id)
       /\ connectingPromises[ev.id] = NoPromise
       /\ GetClientRoute(clients, connectingPromises, ev.id) = "connect"

\* C4 as claimed: at most one client per server id is connected and not closed.
C4_OneLiveSessionPerId ==
    \A id \in ServerIds : Cardinality({ a \in open : calls[a].id = id }) <= 1

StdioWithoutCommand(cfg) == cfg.transport_type = "stdio" /\ Falsy(cfg, "command")

\* C5: a getClient call for a stdio configuration whose command is missing or
\* empty never builds a transport nor connects, never resolves, is rejected
\* with the Configuration error, no client is ever stored for its id, and no
\* pending attempt is left for the id when the call is rejected.
C5_MissingCommandRejected ==
    /\ \A k \in 1..Len(calls) :
          StdioWithoutCommand(ConfigOf(calls[k].id)) =>
             /\ ~calls[calls[k].att].connect
             /\ calls[k].how # "stored"
             /\ calls[calls[k].att].error = ConfigurationError
             /\ Result(k).st # "resolved"
             /\ Result(k).st = "rejected" => Result(k).error = ConfigurationError
             /\ ~MapHas(clients, calls[k].id)
             /\ calls[k].att \notin open
    /\ (ev.op = "failed" /\ StdioWithoutCommand(ConfigOf(ev.id))) =>
          connectingPromises[ev.id] = NoPromise

\* C5 witness: a call with a missing command and a call with an empty command
\* have both been rejected, the latter just now.
C5_Witness ==
    /\ ev.op = "failed" /\ ev.id = "emptycmd"
    /\ \E k \in CallsFor("nocmd") : Result(k).st = "rejected"
    /\ \E k \in CallsFor("emptycmd") : Result(k).st = "rejected"

ExpectedError(cfg) ==
    IF cfg.transport_type = "http"
    THEN IF Falsy(cfg, "address") THEN ConfigurationError ELSE NotImplementedError
    ELSE UnsupportedTransportError

\* C6: a getClient call for a configuration whose transport is not stdio never
\* connects (no fallback to another transport) and never resolves; it is
\* rejected with the Configuration error for http without an address, with the
\* NotImplemented error for http with an address and with the
\* unsupported-transport error for any other kind; no client is stored.
C6_NoTransportFallback ==
    \A k \in 1..Len(calls) :
       LET cfg == ConfigOf(calls[k].id)
       IN cfg.transport_type # "stdio" =>
             /\ ~calls[calls[k].att].connect
             /\ calls[k].how # "stored"
             /\ calls[calls[k].att].error = ExpectedError(cfg)
             /\ Result(k).st # "resolved"
             /\ Result(k).st = "rejected" => Result(k).error = ExpectedError(cfg)
             /\ ~MapHas(clients, calls[k].id)
             /\ calls[k].att \notin open

\* C6 witness: one call of each of the three kinds has been rejected.
C6_Witness ==
    /\ \E k \in CallsFor("http_noaddr") : Result(k).error = ConfigurationError
    /\ \E k \in CallsFor("http_calculator_v1") : Result(k).error = NotImplementedError
    /\ \E k \in CallsFor("ws") : Result(k).error = UnsupportedTransportError

\* C10 as claimed: when disconnectAll returns and no getClient call was made
\* since it started, the store holds no client and no pending attempt.
C10_DisconnectAllEmptiesStore ==
    (ev.op = "disconnectAll" /\ sweep.quiet) =>
       /\ clients = <<>>
       /\ \A id \in ServerIds : connectingPromises[id] = NoPromise

-----------------------------------------------------------------------------
(* JavaScript values, as far as listTools and callTool look at them.  A     *)
(* primitive carries its literal as text; an object carries its own         *)
(* properties as a function from their names.                               *)

JsNull == [t |-> "null"]
JsUndefined == [t |-> "undefined"]
JsNum(lit) == [t |-> "number", v |-> lit]
JsStr(lit) == [t |-> "string", v |-> lit]
JsBool(lit) == [t |-> "boolean", v |-> lit]
JsArr(items) == [t |-> "array", items |-> items]
JsObj(fields) == [t |-> "object", fields |-> fields]

EmptyObject == JsObj(<<>>)

IsPrimitive(v) == v.t \in {"number", "string", "boolean"}

IsNullish(v) == v.t \in {"null", "undefined"}

\* ToBoolean.
Truthy(v) ==
    CASE IsNullish(v) -> FALSE
      [] v.t = "number" -> v.v \notin {"0", "NaN"}
      [] v.t = "string" -> v.v # ""
      [] v.t = "boolean" -> v.v = "true"
      [] OTHER -> TRUE

\* Array.isArray.
IsArray(v) == v.t = "array"

\* `key in v` for an object or an array (an array has no property named
\* by the keys used here); on a primitive the operator throws a TypeError.
HasProperty(v, key) == v.t = "object" /\ key \in DOMAIN v.fields

\* `v.key` for a value that is not null or undefined.
GetProperty(v, key) ==
    IF v.t = "object" /\ key \in DOMAIN v.fields THEN v.fields[key] ELSE JsUndefined

Returned(value) == [threw |-> FALSE, value |-> value]

Threw(error) == [threw |-> TRUE, error |-> error]

-----------------------------------------------------------------------------
(* listTools, lines 117-146, applied to the answer `result` of              *)
(* client.listTools().                                                      *)

MaxTools == 3

ToolDefinitions ==
    { [name |-> "search", description |-> "Search the web"],
      [name |-> "scrape", description |-> "Scrape a page"],
      [name |-> "add"] }

RECURSIVE SeqsUpTo(_, _)
SeqsUpTo(S, n) ==
    IF n = 0 THEN {<<>>}
    ELSE LET shorter == SeqsUpTo(S, n - 1)
         IN shorter \cup { Append(q, x) : q \in shorter, x \in S }

ToolSeqs == SeqsUpTo(ToolDefinitions, MaxTools)

\* The answers a server is modelled to give to a tool listing.
ListResponses ==
    { JsArr(S) : S \in ToolSeqs }
    \cup { JsObj([tools |-> JsArr(S)]) : S \in ToolSeqs }
    \cup { JsObj([tools |-> JsArr(S), nextCursor |-> JsStr("c1")]) :
              S \in SeqsUpTo(ToolDefinitions, 1) }
    \cup { JsNull, JsUndefined, EmptyObject,
           JsObj([items |-> JsArr(<<>>)]),
           JsObj([tools |-> JsNull]),
           JsObj([tools |-> JsStr("search")]),
           JsObj([tools |-> EmptyObject]),
           JsNum("0"), JsNum("42"), JsStr(""), JsStr("ok"),
           JsBool("false"), JsBool("true") }

listToolsBareOnly(result) ==
    IF IsArray(result) THEN Returned(result.items) ELSE Returned(<<>>)

listTools(result) ==
    IF Truthy(result) /\ IsPrimitive(result)
    THEN \* line 130: `'tools' in result` throws, line 144 rethrows
         Threw("TypeError")
    ELSE IF Truthy(result) /\ HasProperty(result, "tools")
            /\ IsArray(result.fields.tools)
    THEN Returned(result.fields.tools.items)       \* line 131
    ELSE IF IsArray(result)
    THEN Returned(result.items)                    \* line 133
    ELSE Returned(<<>>)                            \* lines 129 and 135

-----------------------------------------------------------------------------
(* callTool, lines 148-171, applied to the answer `result` of               *)
(* client.callTool(request).                                                *)

ToolNames == { d.name : d \in ToolDefinitions }

Payloads ==
    { <<>>,
      [query |-> "tla"],
      [url |-> "https://example.org", limit |-> "3"] }

TextContent == JsArr(<<JsObj([type |-> JsStr("text"), text |-> JsStr("42")])>>)

\* The answers a server is modelled to give to a tool call.
CallResponses ==
    { JsObj([content |-> TextContent]),
      JsObj([content |-> TextContent, isError |-> JsBool("false")]),
      JsObj([content |-> JsArr(<<>>)]),
      JsObj([content |-> JsStr("done")]),
      JsObj([content |-> JsNull]),
      JsObj([toolResult |-> JsStr("done")]),
      JsObj([structuredContent |-> EmptyObject, isError |-> JsBool("false")]),
      EmptyObject,
      JsNull, JsUndefined }

\* Line 162.
callToolRequest(toolName, payload) == [name |-> toolName, arguments |-> payload]

callToolContentOrResponse(result) ==
    IF IsNullish(result) THEN Threw("TypeError")
    ELSE IF HasProperty(result, "content") THEN Returned(GetProperty(result, "content"))
    ELSE Returned(result)

\* Lines 164-165: `result.content`; reading a property of null or undefined
\* throws, which line 169 rethrows.
callTool(result) ==
    IF IsNullish(result) THEN Threw("TypeError")
    ELSE Returned(GetProperty(result, "content"))

-----------------------------------------------------------------------------
(* SpecTools: listTools and callTool against the answers of a server.       *)

ListTools(result) ==
    /\ tl' = [op |-> "listTools", request |-> <<>>, payload |-> <<>>,
              name |-> "", response |-> result, out |-> listTools(result)]
    /\ UNCHANGED <<connVars, regVars, actVars>>

CallTool(toolName, payload, result) ==
    /\ tl' = [op |-> "callTool", request |-> callToolRequest(toolName, payload),
              payload |-> payload, name |-> toolName,
              response |-> result, out |-> callTool(result)]
    /\ UNCHANGED <<connVars, regVars, actVars>>

NextTools ==
    \/ \E result \in ListResponses : ListTools(result)
    \/ \E toolName \in ToolNames, payload \in Payloads, result \in CallResponses :
          CallTool(toolName, payload, result)

SpecTools == Init /\ [][NextTools]_vars

-----------------------------------------------------------------------------
(* Properties of listTools and callTool.                                    *)

HoldsToolsArray(v) == HasProperty(v, "tools") /\ IsArray(v.fields.tools)

\* C7 as claimed: callTool sends {name, arguments: payload} and returns the
\* content field of the response when it has one, and the response itself
\* when it has none.
C7_ContentOrWholeResponse ==
    (tl.op = "callTool" /\ tl.response.t = "object") =>
       /\ tl.request = [name |-> tl.name, arguments |-> tl.payload]
       /\ tl.out = IF HasProperty(tl.response, "content")
                   THEN Returned(tl.response.fields.content)
                   ELSE Returned(tl.response)

\* C7 as amended: callTool sends {name, arguments: payload} and returns the
\* content field of the response when it has one; for a response object that
\* has no content field it returns undefined, not the response.
C7_ReturnsContentField ==
    (tl.op = "callTool" /\ tl.response.t = "object") =>
       /\ tl.request = [name |-> tl.name, arguments |-> tl.payload]
       /\ tl.out = IF HasProperty(tl.response, "content")
                   THEN Returned(tl.response.fields.content)
                   ELSE Returned(JsUndefined)

\* C7 witness: a response without a content field was answered by undefined.
C7_Witness ==
    /\ tl.op = "callTool"
    /\ tl.response = JsObj([toolResult |-> JsStr("done")])
    /\ tl.payload = [query |-> "tla"]
    /\ tl.out = Returned(JsUndefined)

\* C8: for every sequence S of tool definitions, listTools returns S, in the
\* same order, when the server answers S and when it answers {tools: S}.
C8_BothShapesSameSequence ==
    tl.op = "listTools" =>
       \A S \in ToolSeqs :
          (tl.response = JsArr(S)
             \/ (HoldsToolsArray(tl.response) /\ tl.response.fields.tools = JsArr(S)))
          => tl.out = Returned(S)

\* C8 witness: a wrapped listing of two different tools was returned in order.
C8_Witness ==
    /\ tl.op = "listTools"
    /\ HoldsToolsArray(tl.response)
    /\ Len(tl.response.fields.tools.items) = 2
    /\ tl.response.fields.tools.items[1] # tl.response.fields.tools.items[2]
    /\ tl.out = Returned(tl.response.fields.tools.items)

\* C9 as claimed: for an answer that is neither a sequence nor an object
\* holding a sequence under tools, listTools returns the empty sequence and
\* does not throw.
C9_OtherShapesGiveEmpty ==
    (tl.op = "listTools" /\ ~IsArray(tl.response) /\ ~HoldsToolsArray(tl.response))
       => (~tl.out.threw /\ tl.out.value = <<>>)

-----------------------------------------------------------------------------
(* More of JavaScript's values: the order of an object's own keys, string   *)
(* conversion and JSON.stringify, as the registry and the action service    *)
(* use them.                                                                *)

\* Object.keys lists an object's own string keys in insertion order.  The
\* objects of this model were all built with their keys in this order.
PropertyOrder ==
    << "type", "properties", "required", "inputSchema",
       "query", "url", "limit",
       "uuid", "name", "text", "content", "description", "metadata", "source",
       "isError", "answer", "status", "toolResult", "data" >>

\* Object.keys(v) for an object; an array's keys are its indices.
OwnKeys(v) ==
    IF v.t = "object"
    THEN SelectSeq(PropertyOrder, LAMBDA k : k \in DOMAIN v.fields)
    ELSE IF v.t = "array" THEN [i \in 1..Len(v.items) |-> ToString(i - 1)]
    ELSE <<>>

\* Object.entries(v).
Entries(v) ==
    IF v.t = "object"
    THEN [i \in 1..Len(OwnKeys(v)) |->
             [key |-> OwnKeys(v)[i], value |-> v.fields[OwnKeys(v)[i]]]]
    ELSE IF v.t = "array"
    THEN [i \in 1..Len(v.items) |-> [key |-> ToString(i - 1), value |-> v.items[i]]]
    ELSE <<>>

\* typeof v === 'object'.
TypeofObject(v) == v.t \in {"object", "array", "null"}

\* String(v), as a template literal and `+` with a string convert a value.
RECURSIVE JsToString(_)
RECURSIVE JoinItems(_, _)
JoinItems(items, i) ==
    IF i > Len(items) THEN ""
    ELSE (IF i > 1 THEN "," ELSE "")
         \o (IF IsNullish(items[i]) THEN "" ELSE JsToString(items[i]))
         \o JoinItems(items, i + 1)

JsToString(v) ==
    CASE v.t = "string" -> v.v
      [] v.t = "number" -> v.v
      [] v.t = "boolean" -> v.v
      [] v.t = "null" -> "null"
      [] v.t = "undefined" -> "undefined"
      [] v.t = "array" -> JoinItems(v.items, 1)
      [] v.t = "object" -> "[object Object]"

\* JSON.stringify(v): a string, or undefined for undefined.  A property
\* whose value is undefined is left out of an object and written as null in
\* an array; NaN and the infinities are written as null.  (The strings of
\* this model hold no character that JSON escapes.)
RECURSIVE JSONText(_)
RECURSIVE JSONItems(_, _)
RECURSIVE JSONMembers(_, _, _)
JSONItems(items, i) ==
    IF i > Len(items) THEN ""
    ELSE (IF i > 1 THEN "," ELSE "")
         \o (IF items[i].t = "undefined" THEN "null" ELSE JSONText(items[i]))
         \o JSONItems(items, i + 1)

JSONMembers(entries, i, first) ==
    IF i > Len(entries) THEN ""
    ELSE IF entries[i].value.t = "undefined" THEN JSONMembers(entries, i + 1, first)
    ELSE (IF first THEN "" ELSE ",")
         \o "\"" \o entries[i].key \o "\":" \o JSONText(entries[i].value)
         \o JSONMembers(entries, i + 1, FALSE)

JSONText(v) ==
    CASE v.t = "string" -> "\"" \o v.v \o "\""
      [] v.t = "number" -> IF v.v \in {"NaN", "Infinity", "-Infinity"} THEN "null" ELSE v.v
      [] v.t = "boolean" -> v.v
      [] v.t = "null" -> "null"
      [] v.t = "array" -> "[" \o JSONItems(v.items, 1) \o "]"
      [] v.t = "object" -> "{" \o JSONMembers(Entries(v), 1, TRUE) \o "}"

JSONstringify(v) == IF v.t = "undefined" THEN JsUndefined ELSE JsStr(JSONText(v))

-----------------------------------------------------------------------------
(* ToolRegistrationService.formatMcpInstruction, src/unnamed/part_002       *)
(* lines 17-47, applied to a tool's name and its inputSchema.               *)

\* Object.keys(v).length; the keys of a string are its indices.
ObjectKeysLength(v) == IF v.t = "string" THEN Len(v.v) ELSE Len(OwnKeys(v))

\* Line 18.
InstructionHead(toolName) ==
    "To use the '" \o toolName
       \o "' tool, provide the following parameters in the payload as a JSON object:\n"

\* Line 44.
GenericSentence ==
    "This tool may not have explicitly defined parameters in its schema or uses a generic payload structure. Refer to its description or the tool may not require specific input fields."

IsNestedInputSchemaAmongOthers(schema) ==
    LET properties == GetProperty(schema, "properties")
        inputSchema == GetProperty(properties, "inputSchema")
    IN /\ Truthy(properties)
       /\ Truthy(inputSchema)
       /\ TypeofObject(inputSchema)
       /\ Truthy(GetProperty(inputSchema, "properties"))

\* Lines 24-30: the schema proper is nested under a single property named
\* inputSchema.
IsNestedInputSchema(schema) ==
    LET properties == GetProperty(schema, "properties")
        inputSchema == GetProperty(properties, "inputSchema")
    IN /\ Truthy(properties)
       /\ ObjectKeysLength(properties) = 1
       /\ Truthy(inputSchema)
       /\ TypeofObject(inputSchema)
       /\ Truthy(GetProperty(inputSchema, "properties"))

\* Line 40: `actualRequired?.includes(paramName)`.  Only null and undefined
\* stop at `?.`; a value without an includes method makes the call throw.
\* (A string has an includes method, which tests for a substring; no schema
\* of this model gives `required` as a string.)
RequiredIncludes(actualRequired, paramName) ==
    IF IsNullish(actualRequired) THEN Returned(FALSE)
    ELSE IF IsArray(actualRequired)
    THEN Returned(\E i \in 1..Len(actualRequired.items) :
                     actualRequired.items[i] = JsStr(paramName))
    ELSE Threw("TypeError")

\* Line 40, for one parameter: reading `.type` of null or undefined throws.
ParamLine(paramName, paramDetails, actualRequired) ==
    IF IsNullish(paramDetails) THEN Threw("TypeError")
    ELSE LET type == GetProperty(paramDetails, "type")
             description == GetProperty(paramDetails, "description")
             required == RequiredIncludes(actualRequired, paramName)
         IN IF required.threw THEN required
            ELSE Returned(
                   "- \"" \o paramName \o "\": (type: "
                   \o (IF Truthy(type) THEN JsToString(type) ELSE "any")
                   \o (IF Truthy(description)
                       THEN ", description: " \o JsToString(description) ELSE "")
                   \o ")"
                   \o (IF required.value THEN " [required]" ELSE "")
                   \o "\n")

\* Lines 37-41.
RECURSIVE ParamLines(_, _, _)
ParamLines(entries, i, actualRequired) ==
    IF i > Len(entries) THEN Returned("")
    ELSE LET line == ParamLine(entries[i].key, entries[i].value, actualRequired)
             rest == ParamLines(entries, i + 1, actualRequired)
         IN IF line.threw THEN line
            ELSE IF rest.threw THEN rest
            ELSE Returned(line.value \o rest.value)

formatMcpInstruction(toolName, schema) ==
    IF IsNullish(schema)
    THEN \* line 20: `schema.properties` of null or undefined
         Threw("TypeError")
    ELSE LET nested == IsNestedInputSchema(schema)
             nestedSchema == GetProperty(GetProperty(schema, "properties"), "inputSchema")
             actualProperties ==
                 IF nested THEN GetProperty(nestedSchema, "properties")
                 ELSE GetProperty(schema, "properties")
             actualRequired ==
                 IF nested
                 THEN IF Truthy(GetProperty(nestedSchema, "required"))
                      THEN GetProperty(nestedSchema, "required") ELSE JsArr(<<>>)
                 ELSE GetProperty(schema, "required")
         IN IF Truthy(actualProperties) /\ ObjectKeysLength(actualProperties) > 0
            THEN LET lines == ParamLines(Entries(actualProperties), 1, actualRequired)
                 IN IF lines.threw THEN lines
                    ELSE Returned(InstructionHead(toolName) \o lines.value)
            ELSE Returned(InstructionHead(toolName) \o GenericSentence)

-----------------------------------------------------------------------------
(* The tool registry: ToolRegistrationService.initializeTools,              *)
(* src/unnamed/part_002 lines 49-146.  A call waits three times: for the    *)
(* persisted local tools (line 60), for getClient (line 90) and for         *)
(* listTools (line 91); an action is the code between two of these waits.   *)
(* What the connection manager and the server answer is chosen here: a      *)
(* configuration that SelectTransport rejects never connects, any other     *)
(* connects or fails, and the listing is any of DiscoveryAnswers.           *)

MaxInits == 2
MaxServers == 2

\* The keys of toolsMap, src/src/config/tools.config.ts lines 25-37; the
\* service of a key is named by the key.
NativeToolsMapConfig ==
    { "spotify", "memory", "resend", "files", "speak", "linear", "maps",
      "crypto", "google", "calendar", "final_answer" }

\* Persisted local tools, as dbToolService.getAvailableTools returns them.
\* "notes" has no service in toolsMap.
MemoryTool ==
    [name |-> "memory", description |-> "Long-term memory",
     instruction |-> "Use recall to read and store to write."]

NotesTool ==
    [name |-> "notes", description |-> "Personal notes",
     instruction |-> "Use append to add a note."]

DbCatalogs == { <<NotesTool, MemoryTool>> }

\* Tool definitions as servers report them (McpToolDefinition, mcp.client.ts
\* lines 17-22).  "export" comes without an inputSchema.
QuerySchema ==
    JsObj([type |-> JsStr("object"),
           properties |-> JsObj([query |-> JsObj([type |-> JsStr("string"),
                                                  description |-> JsStr("Search terms")])]),
           required |-> JsArr(<<JsStr("query")>>)])

NestedUrlSchema ==
    JsObj([properties |->
             JsObj([inputSchema |->
                      JsObj([properties |-> JsObj([url |-> JsObj([type |-> JsStr("string")])])])])])

SearchTool == [name |-> "search", description |-> "Search the web", inputSchema |-> QuerySchema]

ScrapeTool == [name |-> "scrape", description |-> "Scrape a page", inputSchema |-> NestedUrlSchema]

AddTool == [name |-> "add", inputSchema |-> JsObj([type |-> JsStr("object")])]

ExportTool == [name |-> "export", description |-> "Export the results"]

RemoteToolNames == { "search", "scrape", "add", "export" }

\* What a server answers to client.listTools().
DiscoveryAnswers ==
    { JsObj([tools |-> JsArr(<<SearchTool, ScrapeTool>>)]),
      JsArr(<<AddTool, AddTool>>),
      JsArr(<<SearchTool, ExportTool>>),
      JsNum("42") }

\* A configured server with enabled: false.
DisabledConfig ==
    [id |-> "calculator_mcp_v1", name |-> "Calculator MCP", transport_type |-> "stdio",
     command |-> "python", enabled |-> FALSE]

RegistryPool ==
    { ConfigOf("firecrawl"), ConfigOf("todoist"), ConfigOf("nocmd"), DisabledConfig }

\* The lists mcpServerRegistry can be: up to MaxServers servers, each id once.
Registries ==
    { r \in SeqsUpTo(RegistryPool, MaxServers) :
         \A i, j \in 1..Len(r) : i # j => r[i].id # r[j].id }

\* Line 95.
ToolKey(serverId, toolName) == serverId \o "/" \o toolName

\* `rec.key` for a tool definition: undefined when the field is missing.
FieldOf(rec, key) == IF key \in DOMAIN rec THEN rec[key] ELSE JsUndefined

\* Line 101: `mcpTool.description || ...`.
DescriptionOf(mcpTool, serverConfig) ==
    IF "description" \in DOMAIN mcpTool /\ mcpTool.description # ""
    THEN mcpTool.description
    ELSE "MCP tool " \o mcpTool.name \o " from " \o serverConfig.name

\* The ToolService of a remote tool, lines 112-130: the closure keeps the
\* serverConfig of the loop iteration that created it.
McpToolService(serverConfig) == [kind |-> "mcp", serverConfig |-> serverConfig]

\* The ToolService of a local tool, line 67.
NativeToolService(toolName) == [kind |-> "native", service |-> toolName]

\* Lines 62-72, from the i-th local tool on.
RECURSIVE RegisterNativeTools(_, _, _, _)
RegisterNativeTools(loadedTools, toolsMap, dbNativeTools, i) ==
    IF i > Len(dbNativeTools)
    THEN [loadedTools |-> loadedTools, activeToolsMap |-> toolsMap]
    ELSE LET nativeTool == dbNativeTools[i]
         IN RegisterNativeTools(
               Append(loadedTools, nativeTool),                        \* line 63
               IF nativeTool.name \in NativeToolsMapConfig             \* line 66
               THEN (nativeTool.name :> NativeToolService(nativeTool.name)) @@ toolsMap
               ELSE toolsMap,
               dbNativeTools, i + 1)

\* Lines 94-132, from the i-th listed tool on.  The Tool of line 98 is built,
\* instruction included, before it is pushed; when formatMcpInstruction
\* throws, the loop is left with the tools before the i-th registered.
RECURSIVE RegisterMcpTools(_, _, _, _, _)
RegisterMcpTools(loadedTools, toolsMap, serverConfig, mcpTools, i) ==
    IF i > Len(mcpTools)
    THEN [loadedTools |-> loadedTools, activeToolsMap |-> toolsMap, threw |-> FALSE]
    ELSE LET mcpTool == mcpTools[i]
             toolKey == ToolKey(serverConfig.id, mcpTool.name)
             instruction == formatMcpInstruction(mcpTool.name, FieldOf(mcpTool, "inputSchema"))
         IN IF instruction.threw
            THEN [loadedTools |-> loadedTools, activeToolsMap |-> toolsMap, threw |-> TRUE]
            ELSE RegisterMcpTools(
                    Append(loadedTools,
                           [name |-> toolKey,
                            description |-> DescriptionOf(mcpTool, serverConfig),
                            instruction |-> instruction.value]),
                    (toolKey :> McpToolService(serverConfig)) @@ toolsMap,
                    serverConfig, mcpTools, i + 1)

\* An initializeTools call.  pc is where the call waits: "load" (line 60),
\* "connect" (line 90), "list" (line 91); "done" after line 145; "noop"
\* after the return of line 50.  idx is the position of serverConfig in the
\* list.  The other fields are history: afterDone says that an earlier call
\* had returned when this one was made, ops lists what the call has asked
\* of its collaborators, locals the local tools it was given, servers what
\* became of each server it has dealt with, and wrote says that a step of
\* the call has changed the callable map or the published catalog.
NoInit ==
    [pc |-> "noop", idx |-> 0, loadedTools |-> <<>>, afterDone |-> FALSE,
     ops |-> <<>>, loaded |-> FALSE, locals |-> <<>>, servers |-> <<>>,
     wrote |-> FALSE]

Op(op, id) == [op |-> op, id |-> id]

ServerOutcome(id, outcome, tools) == [id |-> id, outcome |-> outcome, tools |-> tools]

ShortCircuitsNever(flag) == FALSE

ShortCircuitsInverted(flag) == ~flag

\* Line 50.
ShortCircuits(flag) == flag

AfterFailureAborts(idx) == Len(mcpServerRegistry) + 1

\* Lines 134-138: the catch block ends the iteration; the loop goes on with
\* the next server.
AfterFailure(idx) == idx + 1

\* The call k, in state c, goes on with the server at position idx, up to
\* the getClient of line 90; past the end of the list it publishes the
\* catalog and sets the flag, lines 140-145.
EnterServer(k, c, idx, toolsMap) ==
    /\ activeToolsMap' = toolsMap
    /\ UNCHANGED <<mcpServerRegistry, exec, instr>>
    /\ UNCHANGED <<connVars, tl, actVars>>
    /\ IF idx > Len(mcpServerRegistry)
       THEN /\ sessionTools' = c.loadedTools                           \* line 142
            /\ isInitialized' = TRUE                                   \* line 143
            /\ inits' = [inits EXCEPT ![k] =
                  [c EXCEPT !.pc = "done", !.idx = idx,
                            !.wrote = @ \/ toolsMap # activeToolsMap
                                        \/ c.loadedTools # sessionTools]]
       ELSE /\ inits' = [inits EXCEPT ![k] =
                  [c EXCEPT !.pc = "connect", !.idx = idx,
                            !.ops = Append(@, Op("getClient", mcpServerRegistry[idx].id)),
                            !.wrote = @ \/ toolsMap # activeToolsMap]]
            /\ UNCHANGED <<sessionTools, isInitialized>>

\* initializeTools is called: lines 50-60.
InitializeTools ==
    /\ Len(inits) < MaxInits
    /\ LET afterDone == \E j \in 1..Len(inits) : inits[j].pc \in {"done", "noop"}
       IN IF ShortCircuits(isInitialized)
          THEN inits' = Append(inits, [NoInit EXCEPT !.afterDone = afterDone])
          ELSE inits' = Append(inits, [NoInit EXCEPT !.pc = "load",
                                                     !.afterDone = afterDone,
                                                     !.ops = <<Op("load", "")>>])
    /\ UNCHANGED <<mcpServerRegistry, isInitialized, activeToolsMap, sessionTools, exec, instr>>
    /\ UNCHANGED <<connVars, tl, actVars>>

\* getAvailableTools resolves to dbNativeTools: lines 61-73, then the first
\* server.
NativeToolsLoaded(k, dbNativeTools) ==
    /\ inits[k].pc = "load"
    /\ LET r == RegisterNativeTools(inits[k].loadedTools, activeToolsMap, dbNativeTools, 1)
       IN EnterServer(k, [inits[k] EXCEPT !.loadedTools = r.loadedTools,
                                          !.loaded = TRUE,
                                          !.locals = dbNativeTools],
                      1, r.activeToolsMap)

\* getAvailableTools rejects: lines 74-77, then the first server.
NativeToolsFail(k) ==
    /\ inits[k].pc = "load"
    /\ EnterServer(k, inits[k], 1, activeToolsMap)

\* The getClient of line 90 settles.
GetClientReturns(k, connected) ==
    /\ inits[k].pc = "connect"
    /\ LET serverConfig == mcpServerRegistry[inits[k].idx]
       IN /\ connected => SelectTransport(serverConfig).error = NoError
          /\ IF connected
             THEN /\ inits' = [inits EXCEPT ![k].pc = "list",
                                            ![k].ops = Append(@, Op("listTools", serverConfig.id))]
                  /\ UNCHANGED <<mcpServerRegistry, isInitialized, activeToolsMap,
                                 sessionTools, exec, instr>>
                  /\ UNCHANGED <<connVars, tl, actVars>>
             ELSE EnterServer(k,
                     [inits[k] EXCEPT !.servers =
                         Append(@, ServerOutcome(serverConfig.id, "connect", <<>>))],
                     AfterFailure(inits[k].idx), activeToolsMap)

\* The server's answer reaches the listTools of line 91: lines 92-133 or the
\* catch block, then the next server.
ToolsListed(k, answer) ==
    /\ inits[k].pc = "list"
    /\ LET serverConfig == mcpServerRegistry[inits[k].idx]
           mcpTools == listTools(answer)
       IN IF mcpTools.threw
          THEN EnterServer(k,
                  [inits[k] EXCEPT !.servers =
                      Append(@, ServerOutcome(serverConfig.id, "discover", <<>>))],
                  AfterFailure(inits[k].idx), activeToolsMap)
          ELSE LET r == RegisterMcpTools(inits[k].loadedTools, activeToolsMap,
                                         serverConfig, mcpTools.value, 1)
               IN EnterServer(k,
                     [inits[k] EXCEPT
                         !.loadedTools = r.loadedTools,
                         !.servers = Append(@, ServerOutcome(serverConfig.id,
                                        IF r.threw THEN "synthesis" ELSE "ok",
                                        mcpTools.value))],
                     IF r.threw THEN AfterFailure(inits[k].idx) ELSE inits[k].idx + 1,
                     r.activeToolsMap)

\* client.listTools() rejects, so that listTools rethrows (mcp.client.ts
\* lines 141-144).
ListToolsRejects(k) ==
    /\ inits[k].pc = "list"
    /\ EnterServer(k,
          [inits[k] EXCEPT !.servers =
              Append(@, ServerOutcome(mcpServerRegistry[inits[k].idx].id, "discover", <<>>))],
          AfterFailure(inits[k].idx), activeToolsMap)

InitRegistry ==
    /\ InitConn
    /\ tl = NoExchange
    /\ \E registry \in Registries : InitReg(registry)
    /\ InitAct

NextRegistry ==
    \/ InitializeTools
    \/ \E k \in 1..Len(inits), dbNativeTools \in DbCatalogs : NativeToolsLoaded(k, dbNativeTools)
    \/ \E k \in 1..Len(inits) : NativeToolsFail(k)
    \/ \E k \in 1..Len(inits), connected \in BOOLEAN : GetClientReturns(k, connected)
    \/ \E k \in 1..Len(inits), answer \in DiscoveryAnswers : ToolsListed(k, answer)
    \/ \E k \in 1..Len(inits) : ListToolsRejects(k)

SpecRegistry == InitRegistry /\ [][NextRegistry]_vars

\* SpecPass: a single initializeTools call, for a process configured with a
\* list of up to MaxPassServers servers.
MaxPassServers == 3

PassRegistries ==
    { r \in SeqsUpTo(RegistryPool, MaxPassServers) :
         \A i, j \in 1..Len(r) : i # j => r[i].id # r[j].id }

InitPass ==
    /\ InitConn
    /\ tl = NoExchange
    /\ \E registry \in PassRegistries : InitReg(registry)
    /\ InitAct

NextPass ==
    \/ (inits = <<>> /\ InitializeTools)
    \/ \E k \in 1..Len(inits), dbNativeTools \in DbCatalogs : NativeToolsLoaded(k, dbNativeTools)
    \/ \E k \in 1..Len(inits) : NativeToolsFail(k)
    \/ \E k \in 1..Len(inits), connected \in BOOLEAN : GetClientReturns(k, connected)
    \/ \E k \in 1..Len(inits), answer \in DiscoveryAnswers : ToolsListed(k, answer)
    \/ \E k \in 1..Len(inits) : ListToolsRejects(k)

SpecPass == InitPass /\ [][NextPass]_vars

\* The names of a catalog, and the keys a server's tools are registered under.
Names(tools) == { tools[i].name : i \in 1..Len(tools) }

KeysOf(serverId) == { ToolKey(serverId, n) : n \in RemoteToolNames }

RegistryTypeOK ==
    /\ isInitialized \in BOOLEAN
    /\ Len(inits) <= MaxInits
    /\ \A k \in 1..Len(inits) :
          /\ inits[k].pc \in {"load", "connect", "list", "done", "noop"}
          /\ inits[k].idx \in 0..(Len(mcpServerRegistry) + 1)
    /\ \A key \in DOMAIN activeToolsMap : activeToolsMap[key].kind \in {"mcp", "native"}

-----------------------------------------------------------------------------
(* The execute of a remote tool's ToolService, part_002 lines 113-129.      *)

\* Payloads as the agent hands them to execute.
ExecPayloads ==
    { [conversation_uuid |-> "c-1", query |-> "tla"],
      [conversation_uuid |-> "c-1", url |-> "https://example.org", limit |-> "3"],
      [conversation_uuid |-> "c-1"],
      [query |-> "tla"] }

DestructureKeepsAll(payload) == [mcpToolPayload |-> payload, payload |-> payload]

\* Line 126: `const { conversation_uuid, ...mcpToolPayload } = payload`.  The
\* rest element is a new object with the other own properties; the object
\* destructured is left as it was.
Destructure(payload) ==
    [mcpToolPayload |-> [f \in (DOMAIN payload) \ {"conversation_uuid"} |-> payload[f]],
     payload |-> payload]

\* activeToolsMap[toolKey].execute(action, payload): getClient for the
\* serverConfig of the closure (line 117), then callTool (line 128).  When
\* getClient rejects, nothing is forwarded.
Execute(toolKey, action, payload, connected) ==
    /\ toolKey \in DOMAIN activeToolsMap
    /\ activeToolsMap[toolKey].kind = "mcp"
    /\ LET serverConfig == activeToolsMap[toolKey].serverConfig
           d == Destructure(payload)
       IN /\ connected => SelectTransport(serverConfig).error = NoError
          /\ exec' = [op |-> "execute", key |-> toolKey, action |-> action,
                      payload |-> payload, payloadAfter |-> d.payload,
                      forwarded |-> connected,
                      session |-> serverConfig.id,
                      request |-> callToolRequest(action, d.mcpToolPayload)]
    /\ UNCHANGED <<mcpServerRegistry, isInitialized, activeToolsMap, sessionTools, inits,
                   instr>>
    /\ UNCHANGED <<connVars, tl, actVars>>

\* SpecCallable: one initializeTools call of a process configured with two
\* servers, and the remote tools' execute invoked at any time.
InitCallable ==
    /\ InitConn
    /\ tl = NoExchange
    /\ InitReg(<<ConfigOf("firecrawl"), ConfigOf("todoist")>>)
    /\ InitAct

NextCallable ==
    \/ (inits = <<>> /\ InitializeTools)
    \/ \E k \in 1..Len(inits), dbNativeTools \in DbCatalogs : NativeToolsLoaded(k, dbNativeTools)
    \/ \E k \in 1..Len(inits), connected \in BOOLEAN : GetClientReturns(k, connected)
    \/ \E k \in 1..Len(inits), answer \in DiscoveryAnswers : ToolsListed(k, answer)
    \/ \E toolKey \in DOMAIN activeToolsMap, action \in RemoteToolNames,
          payload \in ExecPayloads, connected \in BOOLEAN :
          Execute(toolKey, action, payload, connected)

SpecCallable == InitCallable /\ [][NextCallable]_vars

-----------------------------------------------------------------------------
(* Claims about the tool registry.                                          *)

\* The local tools of call k that have a service in toolsMap.
WiredLocals(k) ==
    { inits[k].locals[i].name : i \in 1..Len(inits[k].locals) } \cap NativeToolsMapConfig

\* The keys of the tools that the j-th server of call k listed.
ListedKeys(k, j) ==
    { ToolKey(inits[k].servers[j].id, inits[k].servers[j].tools[i].name) :
         i \in 1..Len(inits[k].servers[j].tools) }

\* C11: an initializeTools call made after an earlier call has returned is
\* a no-op: it returns at once, asks for no local tools, no getClient and no
\* listTools, and changes neither the published catalog nor the callable map.
C11_LaterInitializeIsNoOp ==
    \A k \in 1..Len(inits) :
       inits[k].afterDone =>
          /\ inits[k].pc = "noop"
          /\ inits[k].ops = <<>>
          /\ ~inits[k].wrote

\* C11 witness: the first call has published a catalog with remote tools and
\* the second call, made after it, has returned.
C11_Witness ==
    /\ Len(inits) = 2
    /\ inits[1].pc = "done"
    /\ \E j \in 1..Len(inits[1].servers) : inits[1].servers[j].outcome = "ok"
    /\ inits[2].afterDone
    /\ inits[2].pc = "noop"
    /\ sessionTools = inits[1].loadedTools
    /\ Len(sessionTools) >= 3

\* C12: a configured server with enabled = false is skipped: no call issues
\* a getClient or a listTools for it, and none of its tools is in the
\* catalog or in the callable map.
C12_DisabledServerSkipped ==
    \A s \in 1..Len(mcpServerRegistry) :
       mcpServerRegistry[s].enabled = FALSE =>
          /\ \A k \in 1..Len(inits) : \A o \in 1..Len(inits[k].ops) :
                inits[k].ops[o].id # mcpServerRegistry[s].id
          /\ KeysOf(mcpServerRegistry[s].id)
                \cap (Names(sessionTools) \cup DOMAIN activeToolsMap) = {}

\* C13: in every reachable state the keys of the callable map are the names
\* of the published catalog, and a local tool without a service in toolsMap
\* is in neither.
C13_CallableKeysEqualCatalogNames ==
    /\ DOMAIN activeToolsMap = Names(sessionTools)
    /\ \A name \in Names(sessionTools) \cup DOMAIN activeToolsMap :
          name \in { t.name : t \in { MemoryTool, NotesTool } } => name \in NativeToolsMapConfig

\* C14: the published catalog never holds two tools with the same name.
C14_CatalogNamesUnique ==
    \A i, j \in 1..Len(sessionTools) :
       i # j => sessionTools[i].name # sessionTools[j].name

\* C15: when connect or discovery has failed for a server, the call still
\* deals with every server of the list and completes, and what it publishes
\* and the callable map hold every local tool that has a service and every
\* tool listed by each server that registered, wherever the failing server
\* stands in the list.  (A server whose instruction synthesis fails is a
\* failing server too; that case is C16's.)
C15_FailureIsolated ==
    /\ \A k \in 1..Len(inits) :
          (/\ inits[k].pc = "done"
           /\ \E j \in 1..Len(inits[k].servers) :
                 inits[k].servers[j].outcome \in {"connect", "discover"})
          => /\ Len(inits[k].servers) = Len(mcpServerRegistry)
             /\ \A j \in 1..Len(inits[k].servers) :
                   inits[k].servers[j].id = mcpServerRegistry[j].id
             /\ WiredLocals(k) \subseteq Names(inits[k].loadedTools)
             /\ WiredLocals(k) \subseteq DOMAIN activeToolsMap
             /\ \A j \in 1..Len(inits[k].servers) :
                   inits[k].servers[j].outcome = "ok" =>
                      /\ ListedKeys(k, j) \subseteq Names(inits[k].loadedTools)
                      /\ ListedKeys(k, j) \subseteq DOMAIN activeToolsMap
    /\ (\E k \in 1..Len(inits) : inits[k].pc = "done")
          => \E k \in 1..Len(inits) :
                inits[k].pc = "done" /\ sessionTools = inits[k].loadedTools

\* C15 witness: of three servers the second one failed at discovery, the
\* first and the third registered two tools each, the local tools were
\* loaded, and the call is done.
C15_Witness ==
    \E k \in 1..Len(inits) :
       /\ inits[k].pc = "done"
       /\ inits[k].loaded
       /\ Len(inits[k].servers) = 3
       /\ inits[k].servers[1].outcome = "ok"
       /\ inits[k].servers[2].outcome = "discover"
       /\ inits[k].servers[3].outcome = "ok"
       /\ Cardinality(ListedKeys(k, 1)) = 2
       /\ Cardinality(ListedKeys(k, 3)) = 2
       /\ Len(sessionTools) = 6

\* C16: after an initializeTools call, a server whose connect, discovery or
\* instruction synthesis failed has no tool in the catalog and none in the
\* callable map.
C16_FailingServerSkippedWhole ==
    \A k \in 1..Len(inits) :
       inits[k].pc = "done" =>
          \A j \in 1..Len(inits[k].servers) :
             inits[k].servers[j].outcome # "ok" =>
                KeysOf(inits[k].servers[j].id)
                   \cap (Names(sessionTools) \cup DOMAIN activeToolsMap) = {}

-----------------------------------------------------------------------------
(* actionService.updateActionWithResult, src/unnamed/part_003 lines         *)
(* 197-307: the text taken from a raw result, and what a call that finds    *)
(* its action and commits leaves behind.                                    *)

\* `v?.key`.
OptionalChain(v, key) == IF IsNullish(v) THEN JsUndefined ELSE GetProperty(v, key)

\* Lines 216-225: the object whose entries make the digest.
DigestEntries(result) ==
    << [key |-> "uuid", value |-> GetProperty(result, "uuid")],
       [key |-> "name", value |-> GetProperty(result, "name")],
       [key |-> "content",
        value |-> IF Truthy(GetProperty(result, "text"))
                  THEN GetProperty(result, "text")
                  ELSE GetProperty(result, "content")],
       [key |-> "description", value |-> GetProperty(result, "description")],
       [key |-> "metadata_description",
        value |-> OptionalChain(GetProperty(result, "metadata"), "description")],
       [key |-> "metadata_source",
        value |-> OptionalChain(GetProperty(result, "metadata"), "source")],
       [key |-> "original_source", value |-> GetProperty(result, "source")] >>

\* Lines 227-228: `${key}: ${value}` for each entry, joined by newlines.
RECURSIVE JoinLines(_, _)
JoinLines(entries, i) ==
    IF i > Len(entries) THEN ""
    ELSE (IF i > 1 THEN "\n" ELSE "")
         \o entries[i].key \o ": " \o JsToString(entries[i].value)
         \o JoinLines(entries, i + 1)

DigestOfAllEntries(result) == JoinLines(DigestEntries(result), 1)

\* Lines 216-228.
Digest(result) ==
    JoinLines(SelectSeq(DigestEntries(result), LAMBDA e : ~IsNullish(e.value)), 1)

\* Line 208.
IsTextContent(firstContent) ==
    /\ TypeofObject(firstContent)
    /\ firstContent.t # "null"
    /\ GetProperty(firstContent, "type") = JsStr("text")
    /\ GetProperty(firstContent, "text").t = "string"

ExtractTextSerializesAll(result) == JSONstringify(result)

\* Lines 200-235: extracted_text_content, a string, or undefined when
\* JSON.stringify gives undefined.
ExtractText(result) ==
    IF result.t = "string" THEN result                                   \* line 203
    ELSE IF TypeofObject(result) /\ result.t # "null"                    \* line 204
    THEN LET content == GetProperty(result, "content")
         IN IF IsArray(content) /\ Len(content.items) > 0                \* line 206
            THEN IF IsTextContent(content.items[1])
                 THEN GetProperty(content.items[1], "text")              \* line 209
                 ELSE JSONstringify(result)                              \* line 212
            ELSE IF Digest(result) # ""
                 THEN JsStr(Digest(result))                              \* lines 216-228
                 ELSE JSONstringify(result)                              \* line 230
    ELSE JSONstringify(result)                                           \* line 234

\* Raw results.  Objects without a content field: every choice of the
\* fields the digest looks at, each with one of its values here.
DigestFields == << "uuid", "name", "text", "description", "metadata", "source" >>

FieldValues(field) ==
    CASE field = "uuid" -> { JsStr("u-1") }
      [] field = "name" -> { JsStr("report"), JsNull }
      [] field = "text" -> { JsStr("hello"), JsStr("") }
      [] field = "description" -> { JsStr("weekly") }
      [] field = "metadata" ->
            { JsObj([description |-> JsStr("meta"), source |-> JsStr("crm")]),
              JsObj([source |-> JsStr("crm")]) }
      [] field = "source" -> { JsStr("web") }

RECURSIVE FieldChoices(_)
FieldChoices(n) ==
    IF n = 0 THEN { <<>> }
    ELSE LET rest == FieldChoices(n - 1)
         IN rest \cup { (DigestFields[n] :> v) @@ g :
                           g \in rest, v \in FieldValues(DigestFields[n]) }

PlainObjects ==
    { JsObj(g) : g \in FieldChoices(Len(DigestFields)) }
    \cup { JsObj([status |-> JsStr("ok")]), JsArr(<<JsNum("1"), JsNum("2")>>) }

ImageItem == JsObj([type |-> JsStr("image"), data |-> JsStr("iVBOR")])

TextItem(text) == JsObj([type |-> JsStr("text"), text |-> text])

\* Objects with a content field.
ContentObjects ==
    { JsObj([content |-> c]) :
         c \in { JsArr(<<TextItem(JsStr("42"))>>),
                 JsArr(<<TextItem(JsStr("42")), ImageItem>>),
                 JsArr(<<TextItem(JsStr(""))>>),
                 JsArr(<<ImageItem, TextItem(JsStr("42"))>>),
                 JsArr(<<TextItem(JsNum("42"))>>),
                 JsArr(<<JsObj([type |-> JsStr("text")])>>),
                 JsArr(<<JsStr("plain")>>),
                 JsArr(<<JsNull>>),
                 JsArr(<<>>),
                 JsStr("done"),
                 JsStr(""),
                 JsObj([text |-> JsStr("nested")]),
                 EmptyObject,
                 JsNull } }
    \cup { JsObj([content |-> JsArr(<<TextItem(JsStr("42"))>>), isError |-> JsBool("false")]),
           JsObj([content |-> JsArr(<<ImageItem>>), name |-> JsStr("report")]),
           JsObj([content |-> JsStr("done"), text |-> JsStr("hello")]),
           JsObj([content |-> JsStr("done"), name |-> JsStr("report")]) }

RawResults ==
    { JsStr("Paris is the capital of France"), JsStr("42"), JsStr(""),
      JsNum("42"), JsNum("0"), JsNum("-1.5"), JsNum("NaN"),
      JsBool("true"), JsBool("false"), JsNull, JsUndefined }
    \cup PlainObjects \cup ContentObjects

ActionIds == { "a-1", "a-2" }

\* updateActionWithResult(uuid, result) for an action that exists, with
\* every statement of the transaction succeeding: the action is written
\* completed with the extracted text (lines 237-245); a document with that
\* text is created and linked when the text is truthy (lines 260-278), and
\* none otherwise (line 297).
UpdateActionWithResult(uuid, result) ==
    /\ act' = [op |-> "updateActionWithResult", uuid |-> uuid, raw |-> result,
               status |-> "completed",
               result |-> ExtractText(result),
               documents |-> IF Truthy(ExtractText(result))
                             THEN <<ExtractText(result)>> ELSE <<>>]
    /\ UNCHANGED <<connVars, tl, regVars, db, tx, ret>>

NextActions ==
    \E uuid \in ActionIds, result \in RawResults : UpdateActionWithResult(uuid, result)

SpecActions == Init /\ [][NextActions]_vars

-----------------------------------------------------------------------------
(* Claims about the text taken from a raw result.                           *)

\* Rule 2's shape: an object whose content is a non-empty sequence whose
\* first element has type "text" and a string text.
MatchesRule2(raw) ==
    /\ raw.t = "object"
    /\ HasProperty(raw, "content")
    /\ raw.fields.content.t = "array"
    /\ Len(raw.fields.content.items) >= 1
    /\ LET first == raw.fields.content.items[1]
       IN /\ first.t = "object"
          /\ HasProperty(first, "type") /\ first.fields.type = JsStr("text")
          /\ HasProperty(first, "text") /\ first.fields.text.t = "string"

\* C18: the result text stored is the raw result itself when it is text,
\* the text of the first content element under rule 2, and the JSON
\* serialization for a number, a boolean or null; 42 gives "42".
C18_TextRule2AndScalars ==
    act.op = "updateActionWithResult" =>
       /\ act.raw.t = "string" => act.result = act.raw
       /\ MatchesRule2(act.raw) => act.result = act.raw.fields.content.items[1].fields.text
       /\ act.raw.t \in {"number", "boolean", "null"} => act.result = JSONstringify(act.raw)
       /\ act.raw = JsNum("42") => act.result = JsStr("42")

\* C18 witness: a result whose content starts with a text element and goes
\* on with an image was stored as the text of the first element.
C18_Witness ==
    /\ act.op = "updateActionWithResult"
    /\ MatchesRule2(act.raw)
    /\ Len(act.raw.fields.content.items) = 2
    /\ act.result = JsStr("42")
    /\ act.documents = <<JsStr("42")>>

\* C19: an object with a content field that does not match rule 2 is stored
\* as its JSON serialization.
C19_OtherContentSerialized ==
    (/\ act.op = "updateActionWithResult"
     /\ act.raw.t = "object"
     /\ HasProperty(act.raw, "content")
     /\ ~MatchesRule2(act.raw))
    => act.result = JSONstringify(act.raw)

\* The lines of the digest as the claims describe it: one per well-known
\* field that has a value, in the order identity, name, text/content,
\* description, metadata description, metadata source, source.
HasValue(v, key) == HasProperty(v, key) /\ ~IsNullish(v.fields[key])

MetadataHasValue(raw, key) ==
    /\ HasValue(raw, "metadata")
    /\ raw.fields.metadata.t = "object"
    /\ HasValue(raw.fields.metadata, key)

Line(key, value) == key \o ": " \o JsToString(value)

RECURSIVE JoinWithNewlines(_)
JoinWithNewlines(lines) ==
    IF lines = <<>> THEN ""
    ELSE IF Len(lines) = 1 THEN lines[1]
    ELSE lines[1] \o "\n" \o JoinWithNewlines(Tail(lines))

\* textPresent says when the text field counts as present.
ClaimedDigest(raw, textPresent) ==
    JoinWithNewlines(
       (IF HasValue(raw, "uuid") THEN <<Line("uuid", raw.fields.uuid)>> ELSE <<>>)
       \o (IF HasValue(raw, "name") THEN <<Line("name", raw.fields.name)>> ELSE <<>>)
       \o (IF textPresent THEN <<Line("content", raw.fields.text)>> ELSE <<>>)
       \o (IF HasValue(raw, "description")
           THEN <<Line("description", raw.fields.description)>> ELSE <<>>)
       \o (IF MetadataHasValue(raw, "description")
           THEN <<Line("metadata_description", raw.fields.metadata.fields.description)>>
           ELSE <<>>)
       \o (IF MetadataHasValue(raw, "source")
           THEN <<Line("metadata_source", raw.fields.metadata.fields.source)>> ELSE <<>>)
       \o (IF HasValue(raw, "source")
           THEN <<Line("original_source", raw.fields.source)>> ELSE <<>>))

\* C20 as claimed: for an object without a content field the result text is
\* the digest with one line per well-known field that is present, and the
\* JSON serialization exactly when that digest is empty.
C20_DigestOfPresentFields ==
    (/\ act.op = "updateActionWithResult"
     /\ act.raw.t = "object"
     /\ ~HasProperty(act.raw, "content"))
    => LET digest == ClaimedDigest(act.raw, HasValue(act.raw, "text"))
       IN act.result = IF digest = "" THEN JSONstringify(act.raw) ELSE JsStr(digest)

\* C20 as amended: the same, with the text field counted as present only
\* when its value is truthy; an empty text gives no line.
C20_DigestOfTruthyText ==
    (/\ act.op = "updateActionWithResult"
     /\ act.raw.t = "object"
     /\ ~HasProperty(act.raw, "content"))
    => LET digest == ClaimedDigest(act.raw,
                        HasValue(act.raw, "text") /\ Truthy(act.raw.fields.text))
       IN act.result = IF digest = "" THEN JSONstringify(act.raw) ELSE JsStr(digest)

\* C20 witness: an object with a name and an empty text, and no content
\* field, was stored as the single line of its name.
C20_Witness ==
    /\ act.op = "updateActionWithResult"
    /\ act.raw = JsObj([name |-> JsStr("report"), text |-> JsStr("")])
    /\ act.result = JsStr("name: report")

-----------------------------------------------------------------------------
(* actionService over its store (src/unnamed/part_003, lines 162-307).      *)
(*                                                                         *)
(* db holds the three tables the service writes.  The calls of the service *)
(* are serialized by the store: createAction and updateAction are one      *)
(* statement each, and while a transaction of updateActionWithResult is    *)
(* open no other call writes.  updateActionWithResult is taken one         *)
(* statement at a time, each of which may fail in the store.               *)

MaxDocuments == 2

\* z.enum(['pending', 'completed', 'failed']), line 158.
ActionStatuses == { "pending", "completed", "failed" }

TerminalStatuses == { "completed", "failed" }

\* The statuses a caller may pass; "running" is outside the enum.
InputStatuses == ActionStatuses \cup { "running" }

\* The Action values createAction is called with: the status and the
\* sequence vary, the other fields are well-formed.
ActionInputs ==
    { [uuid |-> JsStr(id), task_uuid |-> JsStr("t-1"), tool_uuid |-> JsStr("tool-1"),
       name |-> JsStr("search"), sequence |-> sequence, status |-> JsStr(status),
       payload |-> JsNull] :
         id \in ActionIds, status \in InputStatuses,
         sequence \in { JsNum("1"), JsStr("1") } }

\* The Partial<Action> values updateAction is called with.
ActionUpdates ==
    { [status |-> status] : status \in InputStatuses }

\* The raw results updateActionWithResult is called with under SpecStore.
StoreResults ==
    { JsStr("Paris is the capital of France"), JsStr(""), JsNum("42"), JsUndefined }

\* actionSchema, lines 152-160: does parse accept the value?
actionSchemaAccepts(action) ==
    /\ action.uuid.t = "string"
    /\ action.task_uuid.t = "string"
    /\ action.tool_uuid.t = "string"
    /\ action.name.t = "string"
    /\ action.sequence.t = "number"
    /\ action.status.t = "string" /\ action.status.v \in ActionStatuses
    /\ action.payload.t \in { "object", "null" }

\* actionSchema.parse(action), line 164: the value, or a ZodError.
actionSchemaParse(action) ==
    IF actionSchemaAccepts(action) THEN Returned(action) ELSE Threw("ZodError")

HasAction(tables, uuid) == uuid \in DOMAIN tables.actions

\* The row of an action as the store returns it.
RowOf(tables, uuid) ==
    [uuid |-> uuid, status |-> tables.actions[uuid].status,
     result |-> tables.actions[uuid].result]

DocumentsNotJoined(tables, uuid) == <<>>

DocumentsOfLastLink(tables, uuid) ==
    LET links == SelectSeq(tables.actionDocuments, LAMBDA ad : ad.action_uuid = uuid)
    IN IF links = <<>> THEN <<>>
       ELSE <<tables.documents[links[Len(links)].document_uuid]>>

\* The documents linked to an action: actionDocuments joined with
\* documents, lines 280-289 and 295.
DocumentsOf(tables, uuid) ==
    LET Linked(i) == tables.actionDocuments[i].action_uuid = uuid
        RECURSIVE Collect(_)
        Collect(i) ==
            IF i > Len(tables.actionDocuments) THEN <<>>
            ELSE (IF Linked(i)
                  THEN <<tables.documents[tables.actionDocuments[i].document_uuid]>>
                  ELSE <<>>) \o Collect(i + 1)
    IN Collect(1)

\* How a call ended: what it returned or the error it threw, with its
\* input and the tables as they were when the call started.
Ended(op, uuid, input, outcome, before) ==
    [op |-> op, uuid |-> uuid, input |-> input, outcome |-> outcome,
     before |-> before]

\* createAction(action), lines 163-181.  The uuid is new to the table.
CreateAction(action) ==
    /\ tx = NoTx
    /\ ~HasAction(db, action.uuid.v)
    /\ LET validated_action == actionSchemaParse(action)
           uuid == action.uuid.v
           row == [status |-> action.status.v, result |-> JsNull]
       IN IF "error" \in DOMAIN validated_action
          THEN /\ ret' = Ended("createAction", uuid, action, validated_action, db)
               /\ db' = db
          ELSE /\ db' = [db EXCEPT !.actions = (uuid :> row) @@ db.actions]
               /\ ret' = Ended("createAction", uuid, action,
                               Returned([uuid |-> uuid, status |-> row.status,
                                         result |-> row.result]), db)
    /\ UNCHANGED <<connVars, tl, regVars, act, tx>>

\* The row after `.set({...updates, ...})`, lines 186-190.
SetColumns(row, updates) ==
    [column \in DOMAIN row |->
        IF column \in DOMAIN updates THEN updates[column] ELSE row[column]]

\* updateAction(uuid, updates), lines 183-195: the updates go to the row
\* whose uuid matches as they are (the function holds no parse), and the
\* row is returned; no row matching, nothing is written.
UpdateAction(uuid, updates) ==
    /\ tx = NoTx
    /\ IF HasAction(db, uuid)
       THEN /\ db' = [db EXCEPT !.actions[uuid] = SetColumns(@, updates)]
            /\ ret' = Ended("updateAction", uuid, updates, Returned(RowOf(db', uuid)), db)
       ELSE /\ db' = db
            /\ ret' = Ended("updateAction", uuid, updates, Returned(JsUndefined), db)
    /\ UNCHANGED <<connVars, tl, regVars, act, tx>>

\* Lines 198-236 of updateActionWithResult(uuid, result): the transaction
\* opens and the text is extracted, up to the await of the status write.
\* `before` remembers the tables for the rollback of what tx writes.
DbTransaction(uuid, result) ==
    /\ tx = NoTx
    /\ Len(db.documents) < MaxDocuments
    /\ tx' = [pc |-> "update", uuid |-> uuid, raw |-> result,
              extracted_text_content |-> ExtractText(result),
              before |-> db, action |-> JsUndefined, value |-> JsUndefined]
    /\ UNCHANGED <<connVars, tl, regVars, act, db, ret>>

\* The transaction ends without a commit: what tx wrote (the actions row,
\* the association) is undone and the call rejects with the error.  The
\* document is written by documentService, which is not handed tx (lines
\* 262-273), so its insert is not among the writes undone.
Rollback(error) ==
    /\ db' = [db EXCEPT !.actions = tx.before.actions,
                        !.actionDocuments = tx.before.actionDocuments]
    /\ ret' = Ended("updateActionWithResult", tx.uuid, tx.raw, Threw(error), tx.before)
    /\ tx' = NoTx

ActionNotFoundUnchecked(tables, uuid) == FALSE

\* `if (!action) throw new Error('Action not found')`, line 247.
ActionNotFound(tables, uuid) == ~HasAction(tables, uuid)

\* `{...action, documents}`, lines 293-296 and 299-302; spreading
\* undefined adds nothing.
WithDocuments(action, documents) ==
    IF action = JsUndefined THEN [documents |-> documents]
    ELSE [uuid |-> action.uuid, status |-> action.status, result |-> action.result,
          documents |-> documents]

\* Lines 237-259 and 297-302: the status write returns its first row.
\* undefined as the text leaves the result column as it is, as an
\* undefined payload does at line 188.
TxUpdate ==
    /\ tx.pc = "update"
    /\ LET uuid == tx.uuid
           text == tx.extracted_text_content
           columns == IF text = JsUndefined THEN [status |-> "completed"]
                      ELSE [status |-> "completed", result |-> text]
           written == IF HasAction(db, uuid)
                      THEN [db EXCEPT !.actions[uuid] = SetColumns(@, columns)]
                      ELSE db
           action == IF HasAction(db, uuid) THEN RowOf(written, uuid) ELSE JsUndefined
       IN IF ActionNotFound(db, uuid)
          THEN Rollback("Action not found")
          ELSE /\ db' = written
               /\ ret' = ret
               /\ IF Truthy(text)
                  THEN tx' = [tx EXCEPT !.pc = "createDocument", !.action = action]
                  ELSE tx' = [tx EXCEPT !.pc = "commit", !.action = action,
                                        !.value = WithDocuments(action, <<>>)]
    /\ UNCHANGED <<connVars, tl, regVars, act>>

\* Lines 260-274: documentService.createDocument returns the document it
\* stored.  Reading task_uuid of an action that is undefined throws.
CreateDocument ==
    /\ tx.pc = "createDocument"
    /\ IF tx.action = JsUndefined
       THEN Rollback("TypeError")
       ELSE /\ db' = [db EXCEPT !.documents =
                         Append(@, [text |-> tx.extracted_text_content,
                                    action_uuid |-> tx.action.uuid])]
            /\ tx' = [tx EXCEPT !.pc = "insert"]
            /\ ret' = ret
    /\ UNCHANGED <<connVars, tl, regVars, act>>

\* Lines 275-278: the association of the action with created_doc, the
\* document stored last.
TxInsert ==
    /\ tx.pc = "insert"
    /\ db' = [db EXCEPT !.actionDocuments =
                 Append(@, [action_uuid |-> tx.action.uuid,
                            document_uuid |-> Len(db.documents)])]
    /\ tx' = [tx EXCEPT !.pc = "findMany"]
    /\ UNCHANGED <<connVars, tl, regVars, act, ret>>

\* Lines 280-296: the action is read again with its documents.
TxFindMany ==
    /\ tx.pc = "findMany"
    /\ IF ~HasAction(db, tx.uuid)
       THEN Rollback("Failed to retrieve action with document")
       ELSE /\ tx' = [tx EXCEPT !.pc = "commit",
                                 !.value = WithDocuments(RowOf(db, tx.uuid),
                                                         DocumentsOf(db, tx.uuid))]
            /\ UNCHANGED <<db, ret>>
    /\ UNCHANGED <<connVars, tl, regVars, act>>

\* The callback has returned (line 296 or 302): the transaction commits
\* and the call returns updated_data, line 306.
TxCommit ==
    /\ tx.pc = "commit"
    /\ ret' = Ended("updateActionWithResult", tx.uuid, tx.raw,
                  Returned(tx.value), tx.before)
    /\ tx' = NoTx
    /\ UNCHANGED <<connVars, tl, regVars, act, db>>

\* The statement the transaction waits for fails in the store: the status
\* write, the document creation, the association insert, the read or the
\* commit.  The error leaves the callback and the transaction rolls back.
StatementFails ==
    /\ tx.pc \in { "update", "createDocument", "insert", "findMany", "commit" }
    /\ Rollback("PersistenceError")
    /\ UNCHANGED <<connVars, tl, regVars, act>>

NextStore ==
    \/ \E action \in ActionInputs : CreateAction(action)
    \/ \E uuid \in ActionIds, updates \in ActionUpdates : UpdateAction(uuid, updates)
    \/ \E uuid \in ActionIds, result \in StoreResults : DbTransaction(uuid, result)
    \/ TxUpdate
    \/ CreateDocument
    \/ TxInsert
    \/ TxFindMany
    \/ TxCommit
    \/ StatementFails

SpecStore == Init /\ [][NextStore]_vars

StoreTypeOK ==
    /\ DOMAIN db.actions \subseteq ActionIds
    /\ \A uuid \in DOMAIN db.actions : db.actions[uuid].status \in InputStatuses
    /\ Len(db.documents) <= MaxDocuments
    /\ \A i \in 1..Len(db.actionDocuments) :
          db.actionDocuments[i].document_uuid \in 1..Len(db.documents)

-----------------------------------------------------------------------------
(* Claims about the action service and its store.                          *)

\* The last call to end was `op` and no transaction has written since.
LastEnded(op) == ret.op = op /\ tx = NoTx

HasReturned == "value" \in DOMAIN ret.outcome

HasThrown == "error" \in DOMAIN ret.outcome

\* C21: a successful updateActionWithResult(id, raw) whose canonical text is
\* T leaves the action completed with result T; a non-empty T adds exactly
\* one document with text T and exactly one association of the action with
\* it, and the action returned carries that document; an empty T adds no
\* document and no association, and the action returned carries none.
C21_CompletedWithOneDocument ==
    LET T == ExtractText(ret.input)
        uuid == ret.uuid
        before == ret.before
        returned == ret.outcome.value
        document == [text |-> T, action_uuid |-> uuid]
    IN (LastEnded("updateActionWithResult") /\ HasReturned /\ T.t = "string") =>
          /\ db.actions[uuid].status = "completed"
          /\ db.actions[uuid].result = T
          /\ returned.status = "completed" /\ returned.result = T
          /\ IF T.v # ""
             THEN /\ db.documents = Append(before.documents, document)
                  /\ db.actionDocuments =
                        Append(before.actionDocuments,
                               [action_uuid |-> uuid,
                                document_uuid |-> Len(db.documents)])
                  /\ \E i \in 1..Len(returned.documents) :
                        returned.documents[i] = document
             ELSE /\ db.documents = before.documents
                  /\ db.actionDocuments = before.actionDocuments
                  /\ returned.documents = <<>>

\* C21 witness: updateActionWithResult("a-1", 42) has returned the action
\* with the one document "42", and an earlier call left "a-2" completed
\* with the empty text and no document.
C21_Witness ==
    /\ LastEnded("updateActionWithResult") /\ HasReturned
    /\ ret.uuid = "a-1" /\ ret.input = JsNum("42")
    /\ ret.outcome.value.documents = <<[text |-> JsStr("42"), action_uuid |-> "a-1"]>>
    /\ db.documents = <<[text |-> JsStr("42"), action_uuid |-> "a-1"]>>
    /\ HasAction(db, "a-2")
    /\ db.actions["a-2"] = [status |-> "completed", result |-> JsStr("")]

C23_TerminalStatusKept ==
    (ret.op # "none" /\ tx = NoTx) =>
       \A uuid \in DOMAIN ret.before.actions :
          ret.before.actions[uuid].status \in TerminalStatuses =>
             db.actions[uuid].status = ret.before.actions[uuid].status

\* C24: updateActionWithResult for an id that no action has fails, with the
\* not-found error once the status write has run, and leaves every table
\* as it was.
C24_UnknownIdChangesNothing ==
    (LastEnded("updateActionWithResult") /\ ~HasAction(ret.before, ret.uuid)) =>
       /\ HasThrown
       /\ ret.outcome.error \in { "Action not found", "PersistenceError" }
       /\ db = ret.before

\* C24 witness: with "a-1" in the table and a document stored,
\* updateActionWithResult("a-2", text) has failed with the not-found error.
C24_Witness ==
    /\ LastEnded("updateActionWithResult")
    /\ ret.uuid = "a-2" /\ ~HasAction(db, "a-2") /\ HasAction(db, "a-1")
    /\ ret.input = JsStr("Paris is the capital of France")
    /\ HasThrown /\ ret.outcome.error = "Action not found"
    /\ Len(db.documents) = 1

\* The input of the last call violates the action schema.
ViolatesSchema ==
    CASE ret.op = "createAction" -> ~actionSchemaAccepts(ret.input)
      [] ret.op = "updateAction" ->
            "status" \in DOMAIN ret.input /\ ret.input.status \notin ActionStatuses
      [] OTHER -> FALSE

\* C25: createAction and updateAction reject an input that violates the
\* action schema and write nothing for it.
C25_InvalidInputRejected ==
    (ret.op \in { "createAction", "updateAction" } /\ tx = NoTx /\ ViolatesSchema) =>
       HasThrown /\ db = ret.before

-----------------------------------------------------------------------------
(* Claims about overlapping initializeTools calls.                         *)

\* The number of entries of ops that are the operation op on server id.
CountOps(ops, op, id) == Cardinality({ i \in 1..Len(ops) : ops[i] = Op(op, id) })

\* The call k has run the whole pass: the local catalog load first, every
\* server of the list visited once and in order, listTools called once on
\* every server that connected, and the catalog published with the flag set.
FullPass(k) ==
    /\ inits[k].ops # <<>> /\ inits[k].ops[1] = Op("load", "")
    /\ Len(inits[k].servers) = Len(mcpServerRegistry)
    /\ \A i \in 1..Len(mcpServerRegistry) :
          LET id == mcpServerRegistry[i].id
          IN /\ inits[k].servers[i].id = id
             /\ CountOps(inits[k].ops, "getClient", id) = 1
             /\ CountOps(inits[k].ops, "listTools", id) =
                   IF inits[k].servers[i].outcome = "connect" THEN 0 ELSE 1
    /\ isInitialized
    /\ \E j \in 1..Len(inits) : inits[j].pc = "done" /\ sessionTools = inits[j].loadedTools

\* C26: the flag is set only by a call that has reached the end of its
\* pass, so a call issued before any earlier call has finished does not
\* return at once: it runs, and when it is done it has run the whole pass.
C26_OverlappingCallsBothRun ==
    /\ isInitialized => \E j \in 1..Len(inits) : inits[j].pc = "done"
    /\ \A k \in 1..Len(inits) :
          ~inits[k].afterDone =>
             /\ inits[k].pc # "noop"
             /\ inits[k].pc = "done" => FullPass(k)

\* C26 witness: two calls over two servers, the second issued while the
\* first was waiting; both are done, each after a listTools on each server.
C26_Witness ==
    /\ Len(inits) = 2 /\ Len(mcpServerRegistry) = 2
    /\ ~inits[2].afterDone
    /\ \A k \in 1..2 :
          /\ inits[k].pc = "done"
          /\ FullPass(k)
          /\ \A i \in 1..2 : inits[k].servers[i].outcome = "ok"

-----------------------------------------------------------------------------
(* formatMcpInstruction applied to input schemas (part_002 lines 17-47).    *)

\* An object with the field `key` added when it has a value.
WithOptional(key, value, fields) ==
    IF value = JsUndefined THEN fields ELSE (key :> value) @@ fields

\* The JSON Schemas of single parameters: the type and the description are
\* optional, and a description may be the empty string.
ParamDetails ==
    { JsObj([type |-> JsStr("string"), description |-> JsStr("Search query")]),
      JsObj([type |-> JsStr("string"), description |-> JsStr("")]),
      JsObj([type |-> JsStr("number")]),
      JsObj([description |-> JsStr("Target")]),
      EmptyObject }

ParamNames == { "query", "url" }

\* The `properties` objects over ParamNames, the empty one included.
PropertyObjects ==
    { JsObj(g) : g \in UNION { [names -> ParamDetails] : names \in SUBSET ParamNames } }

RequiredLists ==
    { JsUndefined, JsArr(<<>>), JsArr(<<JsStr("query")>>),
      JsArr(<<JsStr("url"), JsStr("query")>>) }

ObjectSchema(properties, required) ==
    JsObj(WithOptional("required", required,
             WithOptional("properties", properties, [type |-> JsStr("object")])))

\* Schemas that list their parameters themselves.
FlatSchemas ==
    { ObjectSchema(properties, required) :
         properties \in PropertyObjects \cup { JsUndefined }, required \in RequiredLists }

QueryDetails == JsObj([type |-> JsStr("string"), description |-> JsStr("Search query")])

\* The values found under a property named inputSchema: schemas with and
\* without properties of their own, and the schema of a plain parameter.
InnerSchemas ==
    { ObjectSchema(properties, required) :
         properties \in { JsObj([query |-> QueryDetails]),
                          JsObj([query |-> QueryDetails, url |-> EmptyObject]),
                          EmptyObject, JsUndefined },
         required \in { JsUndefined, JsArr(<<JsStr("query")>>) } }
    \cup { JsObj([type |-> JsStr("string"), description |-> JsStr("The schema")]) }

\* Schemas with a property named inputSchema, alone or next to another.
WrappingSchemas ==
    { ObjectSchema(JsObj([inputSchema |-> inner]), required) :
         inner \in InnerSchemas,
         required \in { JsUndefined, JsArr(<<JsStr("inputSchema")>>),
                        JsArr(<<JsStr("url")>>) } }
    \cup { ObjectSchema(JsObj([inputSchema |-> inner, query |-> QueryDetails]),
                        JsArr(<<JsStr("query")>>)) : inner \in InnerSchemas }

InputSchemas == FlatSchemas \cup WrappingSchemas

\* formatMcpInstruction(toolName, schema) is called, line 102.
FormatMcpInstruction(toolName, schema) ==
    /\ instr' = [op |-> "formatMcpInstruction", toolName |-> toolName,
                 schema |-> schema,
                 outcome |-> formatMcpInstruction(toolName, schema)]
    /\ UNCHANGED <<mcpServerRegistry, isInitialized, activeToolsMap, sessionTools,
                   inits, exec>>
    /\ UNCHANGED <<connVars, tl, actVars>>

NextInstruction ==
    \E toolName \in { "search" }, schema \in InputSchemas :
       FormatMcpInstruction(toolName, schema)

SpecInstruction == Init /\ [][NextInstruction]_vars

-----------------------------------------------------------------------------
(* Claims about the instruction text.                                      *)

\* The schema whose properties and required list are in use: the value of
\* inputSchema when that is the schema's only property and has a properties
\* field, the schema itself otherwise.
SchemaInUse(schema) ==
    IF /\ HasValue(schema, "properties")
       /\ OwnKeys(schema.fields.properties) = <<"inputSchema">>
       /\ HasValue(schema.fields.properties.fields.inputSchema, "properties")
    THEN schema.fields.properties.fields.inputSchema
    ELSE schema

\* The line of one parameter.  described says whether the description is
\* emitted.
ClaimedLine(name, details, required, described) ==
    "- \"" \o name \o "\": (type: "
       \o (IF HasValue(details, "type") THEN details.fields.type.v ELSE "any")
       \o (IF described THEN ", description: " \o details.fields.description.v ELSE "")
       \o ")" \o (IF required THEN " [required]" ELSE "") \o "\n"

\* Is the description of a parameter emitted?  emptyCounts says whether an
\* empty description counts as present.
Described(details, emptyCounts) ==
    /\ HasValue(details, "description")
    /\ emptyCounts \/ details.fields.description.v # ""

RECURSIVE ClaimedLines(_, _, _)
ClaimedLines(entries, requiredNames, emptyCounts) ==
    IF entries = <<>> THEN ""
    ELSE ClaimedLine(entries[1].key, entries[1].value,
                     entries[1].key \in requiredNames,
                     Described(entries[1].value, emptyCounts))
         \o ClaimedLines(Tail(entries), requiredNames, emptyCounts)

\* The instruction as the claim describes it.
ClaimedInstruction(toolName, schema, emptyCounts) ==
    LET inUse == SchemaInUse(schema)
        entries == IF HasValue(inUse, "properties")
                   THEN Entries(inUse.fields.properties) ELSE <<>>
        requiredNames ==
            IF HasValue(inUse, "required")
            THEN { inUse.fields.required.items[i].v :
                      i \in 1..Len(inUse.fields.required.items) }
            ELSE {}
    IN InstructionHead(toolName)
          \o (IF entries = <<>> THEN GenericSentence
              ELSE ClaimedLines(entries, requiredNames, emptyCounts))

\* C27: the instruction lists the parameters of the schema in use, one line
\* each with the name, the type or "any", the description when present and
\* "[required]" exactly for the names in the required list in use, and is
\* the generic sentence exactly when there is no parameter in use.
C27_InstructionOfSchemaInUse ==
    instr.op = "formatMcpInstruction" =>
       instr.outcome = Returned(ClaimedInstruction(instr.toolName, instr.schema,
                                                   TRUE))

\* C27 as amended: the same, with the description emitted when it is
\* present and not the empty string.
C27_InstructionOmitsEmptyDescription ==
    instr.op = "formatMcpInstruction" =>
       instr.outcome = Returned(ClaimedInstruction(instr.toolName, instr.schema,
                                                   FALSE))

\* C27 witness: a schema whose only property is inputSchema, itself with
\* the properties query and url and query required, gave the two lines of
\* the nested schema.
C27_Witness ==
    /\ instr.op = "formatMcpInstruction"
    /\ instr.schema =
          ObjectSchema(JsObj([inputSchema |->
                ObjectSchema(JsObj([query |-> QueryDetails, url |-> EmptyObject]),
                             JsArr(<<JsStr("query")>>))]),
             JsArr(<<JsStr("url")>>))
    /\ instr.outcome = Returned(
          InstructionHead("search")
          \o "- \"query\": (type: string, description: Search query) [required]\n"
          \o "- \"url\": (type: any)\n")

-----------------------------------------------------------------------------
(* Claims about disconnect and the attempts it overlaps.                   *)

\* The attempt a for id was waiting for its connect when a disconnect(id)
\* returned: no getClient(id) was made since that return, or the first one
\* made since is a later call than a.
InFlightAtDisconnect(a, id) ==
    \/ disconnected[id]
    \/ \E k \in CallsFor(id) : k > a /\ calls[k].first

\* C28: after disconnect(id) has returned, only an attempt started later
\* stores a client for id: the attempt whose client has just been stored
\* was not waiting for its connect when a disconnect(id) returned.
C28_InFlightAttemptNotStored ==
    ev.op = "connected" => ~InFlightAtDisconnect(ev.k, ev.id)

\* C29: no id has a client stored and a pending attempt registered at once,
\* and the attempt registered for an id is an attempt for that id whose
\* getClient is still waiting for it: its connect has not settled, or it
\* was rejected on its configuration and the rejection has not yet reached
\* the finally of line 112.
C29_StoredOrPendingNotBoth ==
    \A id \in ServerIds :
       /\ ~(MapHas(clients, id) /\ connectingPromises[id] # NoPromise)
       /\ connectingPromises[id] # NoPromise =>
             /\ calls[connectingPromises[id]].id = id
             /\ calls[connectingPromises[id]].how = "connect"
             /\ calls[connectingPromises[id]].state \in { "connecting", "rejected" }

\* C29 witness: a disconnect let a second attempt for the id start while
\* the first was waiting; the first has just connected, its client is
\* stored and the entry of the second, still waiting, is gone.
C29_Witness ==
    /\ ev.op = "connected" /\ ev.k = 1
    /\ Len(calls) >= 2
    /\ calls[2].id = ev.id /\ calls[2].state = "connecting"
    /\ MapHas(clients, ev.id)
    /\ connectingPromises[ev.id] = NoPromise

\* C30: the client a getClient call returns from the store is not one on
\* which close() has been called.
C30_StoredClientNotClosing ==
    (ev.op = "getClient" /\ calls[ev.k].how = "stored") => calls[ev.k].att \in open

-----------------------------------------------------------------------------
(* Claims about an initializeTools pass that met failures.                 *)

\* The ids of the servers that a call that is done failed to register.
FailedServerIds ==
    UNION { { inits[k].servers[j].id :
                 j \in { i \in 1..Len(inits[k].servers) :
                            inits[k].servers[i].outcome # "ok" } } :
            k \in { i \in 1..Len(inits) : inits[i].pc = "done" } }

\* C31: a call that reaches the end of its pass sets the flag, whether or
\* not the local tools were loaded and whatever servers failed; a call made
\* after that asks nothing of a server that failed; and the tools of a
\* server that failed are neither in the catalog nor in the callable map.
C31_FailedServerNeverRetried ==
    /\ \A k \in 1..Len(inits) : inits[k].pc = "done" => isInitialized
    /\ \A k \in 1..Len(inits) :
          inits[k].afterDone =>
             /\ inits[k].pc = "noop"
             /\ \A o \in 1..Len(inits[k].ops) : inits[k].ops[o].id \notin FailedServerIds
    /\ \A id \in FailedServerIds :
          KeysOf(id) \cap (Names(sessionTools) \cup DOMAIN activeToolsMap) = {}

-----------------------------------------------------------------------------
(* Claims about repeated updateActionWithResult calls.                     *)

\* The number of associations of the action in the tables.
LinksOf(tables, uuid) ==
    Cardinality({ i \in 1..Len(tables.actionDocuments) :
                     tables.actionDocuments[i].action_uuid = uuid })

\* C32: every successful updateActionWithResult call with a non-empty text
\* adds one document and one association to those the action already has:
\* the action is returned with the documents linked by the earlier calls
\* followed by the new one, and with the text of this call as its result.
C32_EachCallAddsADocument ==
    LET T == ExtractText(ret.input)
        uuid == ret.uuid
        before == ret.before
        returned == ret.outcome.value
    IN (/\ LastEnded("updateActionWithResult") /\ HasReturned
        /\ T.t = "string" /\ T.v # "") =>
          /\ returned.documents =
                Append(DocumentsOf(before, uuid), [text |-> T, action_uuid |-> uuid])
          /\ Len(returned.documents) = LinksOf(db, uuid)
          /\ LinksOf(db, uuid) = LinksOf(before, uuid) + 1
          /\ Len(db.documents) = Len(before.documents) + 1
          /\ returned.result = T
          /\ db.actions[uuid].result = T

\* C32 witness: the second successful call for "a-1" has returned the
\* action with two documents, the text of the first call and then "42",
\* and with "42" as its result.
C32_Witness ==
    /\ LastEnded("updateActionWithResult") /\ HasReturned
    /\ ret.uuid = "a-1"
    /\ ret.outcome.value.documents =
          << [text |-> JsStr("Paris is the capital of France"), action_uuid |-> "a-1"],
             [text |-> JsStr("42"), action_uuid |-> "a-1"] >>
    /\ ret.outcome.value.result = JsStr("42")
    /\ LinksOf(db, "a-1") = 2

=============================================================================
